---- MODULE Spec2Model ----
(***************************************************************************)
(* A model of the "origin" CRUD scaffolding layer (Go): the content merge  *)
(* utility of package orm, the engine's model update with its content      *)
(* merge (package service), the generic repository and the five REST       *)
(* handlers, instantiated for the Blog / BlogContent example model.        *)
(***************************************************************************)
EXTENDS Integers, Sequences, FiniteSets, TLC

VARIABLES
    db,     \* stored Blog records: id -> record or NoRecord
    resp,   \* the last HTTP exchange: request, response, steps run, repository calls
    inp,    \* input of the pure function under study (function specifications)
    out,    \* its result
    stage,  \* "in" before the function ran, "out" after
    patch   \* the PATCH handler in flight between its fetch and its save, or NoPatch

vars == <<db, resp, inp, out, stage, patch>>

----------------------------------------------------------------------------
(* Bounds *)

\* number of distinct language identifiers in play
NumLangs == 2
\* longest content collection drawn as an input
MaxLen == 2
\* largest primary key the store hands out
MaxId == 3

LangNames == <<"en", "ar", "fr", "de">>
LangIDs == {LangNames[i] : i \in 1..NumLangs}
Texts == {"x", "y"}

SeqsUpTo(S, n) == UNION {[1..k -> S] : k \in 0..n}
Range(s) == {s[i] : i \in 1..Len(s)}

----------------------------------------------------------------------------
(* Data model: orm.Model, orm.ContentModel, Blog, BlogContent.             *)
(* Timestamps are 0 (the zero time) or 1 (set by the store).               *)

\* a BlogContent value: embedded ContentModel (LanguageID, CreatedAt,
\* UpdatedAt) plus Content and the foreign key BlogID
BlogContent(lang, text, blog, ts) ==
    [LanguageID |-> lang, Content |-> text, BlogID |-> blog,
     CreatedAt |-> ts, UpdatedAt |-> ts]

\* ContentModel.GetLanguageID
GetLanguageID(content) == content.LanguageID

----------------------------------------------------------------------------
(* orm.GetAllContentsWithUpdated                                           *)

\* the keys of a collection
KeysOf(contents) == {GetLanguageID(contents[i]) : i \in 1..Len(contents)}

\* the element a Go map holds for key k after ranging over the slice and
\* assigning contentMap[key] = content: the last element with that key
LastWithKey(contents, k) ==
    contents[CHOOSE i \in 1..Len(contents) :
                /\ GetLanguageID(contents[i]) = k
                /\ \A j \in (i+1)..Len(contents) : GetLanguageID(contents[j]) # k]

MutContentMapKeepCurrent(currentContents, inputContents) ==
    [k \in KeysOf(currentContents) \cup KeysOf(inputContents) |->
        IF k \in KeysOf(currentContents)
        THEN LastWithKey(currentContents, k)
        ELSE LastWithKey(inputContents, k)]

MutContentMapInputOnly(currentContents, inputContents) ==
    [k \in KeysOf(inputContents) |-> LastWithKey(inputContents, k)]

MutContentMapFirstOnClash(currentContents, inputContents) ==
    [k \in KeysOf(currentContents) \cup KeysOf(inputContents) |->
        IF k \notin KeysOf(inputContents) THEN LastWithKey(currentContents, k)
        ELSE IF k \in KeysOf(currentContents)
        THEN inputContents[CHOOSE i \in 1..Len(inputContents) :
                 /\ GetLanguageID(inputContents[i]) = k
                 /\ \A j \in 1..(i - 1) : GetLanguageID(inputContents[j]) # k]
        ELSE LastWithKey(inputContents, k)]

\* contentMap after both loops: input entries overwrite current ones
ContentMap(currentContents, inputContents) ==
    [k \in KeysOf(currentContents) \cup KeysOf(inputContents) |->
        IF k \in KeysOf(inputContents)
        THEN LastWithKey(inputContents, k)
        ELSE LastWithKey(currentContents, k)]

\* the slices "for _, content := range contentMap { append }" can build:
\* Go ranges over a map in an unspecified order, so every order is possible
MapValuesInAnyOrder(m) ==
    {s \in [1..Cardinality(DOMAIN m) -> {m[k] : k \in DOMAIN m}] :
        \A k \in DOMAIN m : \E i \in 1..Cardinality(DOMAIN m) : s[i] = m[k]}

\* the set of slices GetAllContentsWithUpdated may return
GetAllContentsWithUpdated(currentContents, inputContents) ==
    MapValuesInAnyOrder(ContentMap(currentContents, inputContents))

----------------------------------------------------------------------------
(* Types, as reflect sees them.  A type is a sequence of words:            *)
(* <<"string">>, <<"ptr", "string">>, <<"slice", "struct", "BlogContent">>.*)
(* A struct type is the sequence of its fields [Name, Type], promoted      *)
(* fields of embedded structs included (what FieldByName resolves).        *)
(* A pointer value is <<>> (nil) or <<v>>; a struct value is a record.     *)

Fld(name, type) == [Name |-> name, Type |-> type]

\* Blog (embedding orm.Model): the example model type T
BlogFields ==
    << Fld("ID", <<"uint">>), Fld("CreatedAt", <<"time">>), Fld("UpdatedAt", <<"time">>),
       Fld("Contents", <<"slice", "struct", "BlogContent">>),
       Fld("Owner", <<"string">>), Fld("IsPublished", <<"bool">>) >>

\* BlogContent (embedding orm.ContentModel)
BlogContentFields ==
    << Fld("LanguageID", <<"string">>), Fld("CreatedAt", <<"time">>),
       Fld("UpdatedAt", <<"time">>), Fld("Content", <<"string">>),
       Fld("BlogID", <<"uint">>) >>

\* the inner struct generateInnerStruct builds for BlogContent: LanguageID
\* from the embedded base, then Content; BlogID (suffix "ID") is dropped
InnerContentFields ==
    << Fld("LanguageID", <<"string">>), Fld("Content", <<"string">>) >>

\* the shape GenerateCreateParameters builds for Blog
CreateParamFields ==
    << Fld("Contents", <<"slice", "struct", "InnerContent">>),
       Fld("Owner", <<"string">>), Fld("IsPublished", <<"bool">>) >>

\* the shape GenerateUpdateParameters builds for Blog: every field a pointer
UpdateParamFields ==
    << Fld("Contents", <<"ptr", "slice", "struct", "InnerContent">>),
       Fld("Owner", <<"ptr", "string">>), Fld("IsPublished", <<"ptr", "bool">>) >>

\* struct types the copier is exercised on: the same three field names with
\* plain, reordered, pointer, convertible (int8 / uint8) and incompatible
\* (bool) types
PlainFields ==
    << Fld("Owner", <<"string">>), Fld("Rank", <<"uint8">>), Fld("Note", <<"string">>) >>
PlainRevFields ==
    << Fld("Note", <<"string">>), Fld("Rank", <<"uint8">>), Fld("Owner", <<"string">>) >>
PtrsFields ==
    << Fld("Owner", <<"ptr", "string">>), Fld("Rank", <<"ptr", "uint8">>),
       Fld("Note", <<"string">>) >>
SignedFields ==
    << Fld("Owner", <<"string">>), Fld("Rank", <<"int8">>), Fld("Note", <<"string">>) >>
FlaggedFields ==
    << Fld("Owner", <<"string">>), Fld("Rank", <<"bool">>), Fld("Note", <<"string">>) >>

\* a model with slice fields other than Contents: a slice of structs that
\* are no content models, and a slice of strings
NoteFields ==
    << Fld("Text", <<"string">>), Fld("Content", <<"string">>), Fld("AuthorID", <<"uint">>) >>
ArticleFields ==
    << Fld("ID", <<"uint">>), Fld("CreatedAt", <<"time">>), Fld("UpdatedAt", <<"time">>),
       Fld("Owner", <<"string">>), Fld("Notes", <<"slice", "struct", "Note">>),
       Fld("Tags", <<"slice", "string">>) >>
\* the nested struct generateInnerStruct builds for Note (AuthorID dropped)
InnerNoteFields == << Fld("Text", <<"string">>), Fld("Content", <<"string">>) >>
\* update parameters for Article: the generated shape (Owner, Notes) and,
\* as the engine takes any struct, a Tags field and one the model lacks
ArticleUpdateFields ==
    << Fld("Owner", <<"ptr", "string">>),
       Fld("Notes", <<"ptr", "slice", "struct", "InnerNote">>),
       Fld("Tags", <<"ptr", "slice", "string">>),
       Fld("Extra", <<"ptr", "string">>) >>

\* a hand-written item type for update parameters whose Content cannot be
\* assigned to BlogContent.Content (a string)
CodeContentFields ==
    << Fld("LanguageID", <<"string">>), Fld("Content", <<"bool">>) >>
UpdateCodeParamFields ==
    << Fld("Contents", <<"ptr", "slice", "struct", "CodeContent">>),
       Fld("Owner", <<"ptr", "string">>), Fld("IsPublished", <<"ptr", "bool">>) >>

\* a model with an unexported field
VaultFields ==
    << Fld("Owner", <<"string">>), Fld("Rank", <<"uint8">>), Fld("secret", <<"string">>) >>

StructFields(name) ==
    CASE name = "Blog" -> BlogFields
      [] name = "Vault" -> VaultFields
      [] name = "CodeContent" -> CodeContentFields
      [] name = "Note" -> NoteFields
      [] name = "InnerNote" -> InnerNoteFields
      [] name = "Article" -> ArticleFields
      [] name = "BlogContent" -> BlogContentFields
      [] name = "InnerContent" -> InnerContentFields
      [] name = "Plain" -> PlainFields
      [] name = "PlainRev" -> PlainRevFields
      [] name = "Ptrs" -> PtrsFields
      [] name = "Signed" -> SignedFields
      [] name = "Flagged" -> FlaggedFields
      [] OTHER -> << >>

IsPtr(t) == Len(t) > 0 /\ t[1] = "ptr"
IsSlice(t) == Len(t) > 0 /\ t[1] = "slice"
IsStruct(t) == Len(t) > 0 /\ t[1] = "struct"

FieldNames(fields) == {fields[i].Name : i \in 1..Len(fields)}
\* reflect.Value.FieldByName(name).Type(), for a name the struct has
FieldType(fields, name) ==
    fields[CHOOSE i \in 1..Len(fields) : fields[i].Name = name].Type

\* reflect.Value.CanSet() of a field of an addressable struct: the field is
\* exported (its name starts with an upper-case letter), over the names in play
CanSet(name) == name \notin {"secret"}

\* the zero value of a type
RECURSIVE ZeroOf(_)
ZeroOf(t) ==
    CASE t = <<"string">> -> ""
      [] t = <<"bool">> -> FALSE
      [] IsPtr(t) -> << >>
      [] IsSlice(t) -> << >>
      [] IsStruct(t) ->
            LET fs == StructFields(t[2])
            IN  [n \in FieldNames(fs) |-> ZeroOf(FieldType(fs, n))]
      [] OTHER -> 0

\* reflect.Type.ConvertibleTo, for the 8-bit integer kinds (no same-named
\* pair of fields drawn sets an integer against a string, the other pair of
\* kinds in play Go converts)
ConvertibleTo(srcT, dstT) ==
    srcT # dstT /\ srcT \in {<<"int8">>, <<"uint8">>} /\ dstT \in {<<"int8">>, <<"uint8">>}
\* reflect.Value.Convert between int8 and uint8: two's complement wrap
Convert(v, dstT) ==
    IF dstT = <<"uint8">> THEN v % 256
    ELSE IF v % 256 > 127 THEN (v % 256) - 256 ELSE v % 256

----------------------------------------------------------------------------
(* service.copyField and service.copyStruct                                *)

\* "for src.Kind() == reflect.Ptr && !src.IsNil() { src = src.Elem() }"
RECURSIVE DerefSrc(_, _)
DerefSrc(t, v) ==
    IF IsPtr(t) /\ v # << >> THEN DerefSrc(Tail(t), v[1]) ELSE [t |-> t, v |-> v]

\* the type dst has once every pointer level is followed
RECURSIVE BaseType(_)
BaseType(t) == IF IsPtr(t) THEN BaseType(Tail(t)) ELSE t

\* the value dst reaches: nil levels are allocated (reflect.New) on the way
RECURSIVE DerefDst(_, _)
DerefDst(t, v) ==
    IF IsPtr(t)
    THEN IF v = << >> THEN DerefDst(Tail(t), ZeroOf(Tail(t))) ELSE DerefDst(Tail(t), v[1])
    ELSE v

\* the destination field with x stored behind its (now allocated) pointers
RECURSIVE WrapDst(_, _)
WrapDst(t, x) == IF IsPtr(t) THEN << WrapDst(Tail(t), x) >> ELSE x

MutCopyFieldNoAssign(dstT, dstV, srcT, srcV) ==
    [err |-> "", val |-> WrapDst(dstT, DerefDst(dstT, dstV))]

\* copyField(dst, src): the error ("" for nil) and the destination afterwards
copyField(dstT, dstV, srcT, srcV) ==
    LET s == DerefSrc(srcT, srcV)
        bt == BaseType(dstT)
    IN  IF s.t = bt
        THEN [err |-> "", val |-> WrapDst(dstT, s.v)]
        ELSE IF ConvertibleTo(s.t, bt)
        THEN [err |-> "", val |-> WrapDst(dstT, Convert(s.v, bt))]
        ELSE [err |-> "type mismatch", val |-> WrapDst(dstT, DerefDst(dstT, dstV))]

\* the loop of copyStruct from source field i on
RECURSIVE CopyFieldsFrom(_, _, _, _, _)
CopyFieldsFrom(dstFields, dst, srcFields, src, i) ==
    IF i > Len(srcFields) THEN [err |-> "", val |-> dst, field |-> ""]
    ELSE LET n == srcFields[i].Name
         IN  IF n \in FieldNames(dstFields) /\ CanSet(n)
             THEN LET r == copyField(FieldType(dstFields, n), dst[n],
                                     srcFields[i].Type, src[n])
                      d == [dst EXCEPT ![n] = r.val]
                  IN  IF r.err # "" THEN [err |-> r.err, val |-> d, field |-> n]
                      ELSE CopyFieldsFrom(dstFields, d, srcFields, src, i + 1)
             ELSE CopyFieldsFrom(dstFields, dst, srcFields, src, i + 1)

\* copyStruct(dst, src): fields copied by name, in source order, stopping
\* at the first error, which names the field ("field %s: %w")
copyStruct(dstFields, dst, srcFields, src) ==
    CopyFieldsFrom(dstFields, dst, srcFields, src, 1)

----------------------------------------------------------------------------
(* service.handleContentUpdate and engine.UpdateModelFromUpdateParameters  *)

\* getLanguageID(v): the GetLanguageID method (BlogContent has it through
\* the embedded ContentModel), else the LanguageID field, else ""
getLanguageID(fields, v) ==
    IF "LanguageID" \in FieldNames(fields) THEN v.LanguageID ELSE ""

\* contentMap[k] = v
MapPut(m, k, v) == [x \in DOMAIN m \cup {k} |-> IF x = k THEN v ELSE m[x]]

RECURSIVE MutExistingMapSkipsFirst(_, _, _)
MutExistingMapSkipsFirst(elemFields, modelField, i) ==
    IF i <= 1 THEN << >>
    ELSE MapPut(MutExistingMapSkipsFirst(elemFields, modelField, i - 1),
                getLanguageID(elemFields, modelField[i]), modelField[i])

\* loop 1 of handleContentUpdate: existing items by language id
RECURSIVE ExistingMap(_, _, _)
ExistingMap(elemFields, modelField, i) ==
    IF i = 0 THEN << >>
    ELSE MapPut(ExistingMap(elemFields, modelField, i - 1),
                getLanguageID(elemFields, modelField[i]), modelField[i])

RECURSIVE MutProcessUpdatesStoreFailed(_, _, _, _, _)
MutProcessUpdatesStoreFailed(elemT, itemT, contentMap, paramValue, i) ==
    IF i > Len(paramValue) THEN contentMap
    ELSE LET langID == getLanguageID(StructFields(itemT[2]), paramValue[i])
             r == copyStruct(StructFields(elemT[2]), ZeroOf(elemT),
                             StructFields(itemT[2]), paramValue[i])
         IN  MutProcessUpdatesStoreFailed(elemT, itemT, MapPut(contentMap, langID, r.val),
                                          paramValue, i + 1)

RECURSIVE MutProcessUpdatesInPlace(_, _, _, _, _)
MutProcessUpdatesInPlace(elemT, itemT, contentMap, paramValue, i) ==
    IF i > Len(paramValue) THEN contentMap
    ELSE LET k == getLanguageID(StructFields(itemT[2]), paramValue[i])
             base == IF k \in DOMAIN contentMap THEN contentMap[k] ELSE ZeroOf(elemT)
             r == copyStruct(StructFields(elemT[2]), base,
                             StructFields(itemT[2]), paramValue[i])
         IN  MutProcessUpdatesInPlace(elemT, itemT, MapPut(contentMap, k, r.val),
                                      paramValue, i + 1)

\* loop 2 of handleContentUpdate from update item i on: a new zero item is
\* filled from the update item and stored only when the copy succeeded
RECURSIVE ProcessUpdates(_, _, _, _, _)
ProcessUpdates(elemT, itemT, contentMap, paramValue, i) ==
    IF i > Len(paramValue) THEN contentMap
    ELSE LET langID == getLanguageID(StructFields(itemT[2]), paramValue[i])
             r == copyStruct(StructFields(elemT[2]), ZeroOf(elemT),
                             StructFields(itemT[2]), paramValue[i])
         IN  ProcessUpdates(elemT, itemT,
                            IF r.err = "" THEN MapPut(contentMap, langID, r.val)
                            ELSE contentMap,
                            paramValue, i + 1)

MutHandleContentReplace(fieldT, modelField, paramT, paramValue) ==
    MapValuesInAnyOrder(
        ProcessUpdates(Tail(fieldT), Tail(paramT), << >>, paramValue, 1))

\* handleContentUpdate(modelField, paramValue): the slices the model field
\* may hold afterwards (the map is ranged over in an unspecified order);
\* the returned error is always nil
handleContentUpdate(fieldT, modelField, paramT, paramValue) ==
    MapValuesInAnyOrder(
        ProcessUpdates(Tail(fieldT), Tail(paramT),
                       ExistingMap(StructFields(fieldT[3]), modelField, Len(modelField)),
                       paramValue, 1))

RECURSIVE MutUpdateNilClears(_, _, _, _, _)
MutUpdateNilClears(modelFields, model, paramFields, params, i) ==
    IF i > Len(paramFields) THEN {[model |-> model, err |-> ""]}
    ELSE
      LET n == paramFields[i].Name
          pt == paramFields[i].Type
          next(m) == MutUpdateNilClears(modelFields, m, paramFields, params, i + 1)
      IN
        IF n \notin FieldNames(modelFields) THEN next(model)
        ELSE IF IsPtr(pt) /\ params[n] = << >>
        THEN next([model EXCEPT ![n] = ZeroOf(FieldType(modelFields, n))])
        ELSE IF IsSlice(FieldType(modelFields, n)) THEN next(model)
        ELSE next([model EXCEPT ![n] =
                      copyField(FieldType(modelFields, n), model[n],
                                Tail(pt), params[n][1]).val])

\* the loop of UpdateModelFromUpdateParameters from parameter field i on:
\* the set of possible (model, err) results
RECURSIVE UpdateFieldsFrom(_, _, _, _, _)
UpdateFieldsFrom(modelFields, model, paramFields, params, i) ==
    IF i > Len(paramFields) THEN {[model |-> model, err |-> ""]}
    ELSE
      LET n == paramFields[i].Name
          pt == paramFields[i].Type
          pv == params[n]
          next(m) == UpdateFieldsFrom(modelFields, m, paramFields, params, i + 1)
      IN
        IF IsPtr(pt) /\ pv = << >> THEN next(model)              \* nil: skipped
        ELSE IF n \notin FieldNames(modelFields) \/ ~CanSet(n) THEN next(model)
        ELSE
          LET mt == FieldType(modelFields, n)
              elemT == IF IsPtr(pt) THEN Tail(pt) ELSE pt
              elemV == IF IsPtr(pt) THEN pv[1] ELSE pv
          IN
            IF IsSlice(mt)
            THEN IF n = "Contents"
                 THEN UNION { next([model EXCEPT ![n] = s]) :
                                 s \in handleContentUpdate(mt, model[n], elemT, elemV) }
                 ELSE next(model)
            ELSE LET r == copyField(mt, model[n], elemT, elemV)
                 IN  IF r.err # ""
                     THEN {[model |-> [model EXCEPT ![n] = r.val], err |-> r.err]}
                     ELSE next([model EXCEPT ![n] = r.val])

\* engine.UpdateModelFromUpdateParameters for T = Blog
UpdateModelFromUpdateParameters(model, updateParams) ==
    UpdateFieldsFrom(BlogFields, model, UpdateParamFields, updateParams, 1)

----------------------------------------------------------------------------
(* engine.FillModelFromCreateParameters                                    *)

\* the inner loop over a slice parameter from element j on: dstElem is a
\* zero element of the model's slice, filled by copyStruct or copyField
RECURSIVE FillSliceFrom(_, _, _, _, _)
FillSliceFrom(dstElemT, srcElemT, srcSlice, acc, j) ==
    IF j > Len(srcSlice) THEN [err |-> "", val |-> acc]
    ELSE LET nilPtr == IsPtr(srcElemT) /\ srcSlice[j] = << >>
             st == IF IsPtr(srcElemT) THEN Tail(srcElemT) ELSE srcElemT
             sv == IF IsPtr(srcElemT) /\ ~nilPtr THEN srcSlice[j][1] ELSE srcSlice[j]
             r == IF nilPtr THEN [err |-> "", val |-> ZeroOf(dstElemT)]
                  ELSE IF IsStruct(st) /\ IsStruct(dstElemT)
                  THEN copyStruct(StructFields(dstElemT[2]), ZeroOf(dstElemT),
                                  StructFields(st[2]), sv)
                  ELSE copyField(dstElemT, ZeroOf(dstElemT), st, sv)
         IN  IF r.err # "" THEN [err |-> r.err, val |-> acc]
             ELSE FillSliceFrom(dstElemT, srcElemT, srcSlice, Append(acc, r.val), j + 1)

\* the nil *T that every error return of FillModelFromCreateParameters
\* hands back ("return nil, fmt.Errorf(...)")
NilModel == [nil |-> TRUE]

RECURSIVE MutFillFailsOnMissingField(_, _, _, _, _)
MutFillFailsOnMissingField(modelFields, model, cpFields, createParams, i) ==
    IF i > Len(cpFields) THEN [err |-> "", model |-> model]
    ELSE
      LET n == cpFields[i].Name
          ct == cpFields[i].Type
      IN
        IF n \notin FieldNames(modelFields) \/ ~CanSet(n)
        THEN [err |-> "cannot be set", model |-> NilModel]
        ELSE
          LET mt == FieldType(modelFields, n)
              r == IF IsSlice(ct)
                   THEN FillSliceFrom(Tail(mt), Tail(ct), createParams[n], << >>, 1)
                   ELSE copyField(mt, model[n], ct, createParams[n])
          IN  IF r.err # "" THEN [err |-> r.err, model |-> NilModel]
              ELSE MutFillFailsOnMissingField(modelFields, [model EXCEPT ![n] = r.val],
                                              cpFields, createParams, i + 1)

\* the loop over the parameter fields from field i on
RECURSIVE FillFieldsFrom(_, _, _, _, _)
FillFieldsFrom(modelFields, model, cpFields, createParams, i) ==
    IF i > Len(cpFields) THEN [err |-> "", model |-> model]
    ELSE
      LET n == cpFields[i].Name
          ct == cpFields[i].Type
      IN
        IF n \notin FieldNames(modelFields)
        THEN FillFieldsFrom(modelFields, model, cpFields, createParams, i + 1)
        ELSE IF ~CanSet(n)
        THEN [err |-> "cannot be set", model |-> NilModel]
        ELSE
          LET mt == FieldType(modelFields, n)
              r == IF IsSlice(ct)
                   THEN FillSliceFrom(Tail(mt), Tail(ct), createParams[n], << >>, 1)
                   ELSE copyField(mt, model[n], ct, createParams[n])
          IN  IF r.err # "" THEN [err |-> r.err, model |-> NilModel]
              ELSE FillFieldsFrom(modelFields, [model EXCEPT ![n] = r.val],
                                  cpFields, createParams, i + 1)

\* engine.FillModelFromCreateParameters for T = Blog: a new zero Blog filled
\* from the parameters
FillModelFromCreateParameters(createParams) ==
    FillFieldsFrom(BlogFields, ZeroOf(<<"struct", "Blog">>),
                   CreateParamFields, createParams, 1)

----------------------------------------------------------------------------
(* The shape generator of the engine.  It walks the DECLARED fields of the *)
(* model type (reflect.Type.Field(i)): an embedded struct is one field,    *)
(* Anonymous, named after its type.  A declared field is                   *)
(* [Name, Type, Anonymous].  A generated shape is [fields, inner]: the     *)
(* top-level fields and, for every slice-of-struct field, the fields of    *)
(* the nested struct generated for it; the type <<"slice", "inner", n>>    *)
(* is "slice of the nested struct generated for field n".                  *)

\* most fields a drawn model type declares
MaxFields == 3

Decl(name, type, anonymous) == [Name |-> name, Type |-> type, Anonymous |-> anonymous]

\* orm.Model
ModelDecl ==
    << Decl("ID", <<"uint">>, FALSE), Decl("CreatedAt", <<"time">>, FALSE),
       Decl("UpdatedAt", <<"time">>, FALSE) >>

\* orm.ContentModel
ContentModelDecl ==
    << Decl("LanguageID", <<"string">>, FALSE),
       Decl("Language", <<"struct", "Language">>, FALSE),
       Decl("CreatedAt", <<"time">>, FALSE), Decl("UpdatedAt", <<"time">>, FALSE) >>

\* BlogContent of the example: orm.ContentModel embedded, Content, BlogID
BlogContentDecl ==
    << Decl("ContentModel", <<"struct", "ContentModel">>, TRUE),
       Decl("Content", <<"string">>, FALSE), Decl("BlogID", <<"uint">>, FALSE) >>

\* Blog of the example: orm.Model embedded, Contents, Owner, IsPublished
BlogDecl ==
    << Decl("Model", <<"struct", "Model">>, TRUE),
       Decl("Contents", <<"slice", "struct", "BlogContent">>, FALSE),
       Decl("Owner", <<"string">>, FALSE), Decl("IsPublished", <<"bool">>, FALSE) >>

\* a nested struct that is no content model and repeats the name Content
NoteDecl ==
    << Decl("Text", <<"string">>, FALSE), Decl("Content", <<"string">>, FALSE),
       Decl("AuthorID", <<"uint">>, FALSE) >>

\* an embedded struct that is no recognized base
AuditDecl == << Decl("Editor", <<"string">>, FALSE) >>

Declared(name) ==
    CASE name = "Model" -> ModelDecl
      [] name = "ContentModel" -> ContentModelDecl
      [] name = "BlogContent" -> BlogContentDecl
      [] name = "Blog" -> BlogDecl
      [] name = "Note" -> NoteDecl
      [] name = "Audit" -> AuditDecl
      [] OTHER -> << >>

\* reflect.Type.Name(): the name of a defined or basic type, "" for a
\* slice or pointer type
TypeName(t) ==
    IF IsStruct(t) THEN t[2]
    ELSE IF IsSlice(t) \/ IsPtr(t) THEN ""
    ELSE t[1]

\* strings.Contains(name, "Model"), over the field names in play
\* (a name that contains "ContentModel" contains "Model")
ContainsModel(name) == name \in {"Model", "ContentModel", "ModelName"}

\* strings.HasSuffix(name, "ID"), over the field names in play
HasSuffixID(name) == name \in {"ID", "LanguageID", "BlogID", "AuthorID"}

MutIsBaseFieldEmbeddedOnly(field) ==
    field.Anonymous /\ TypeName(field.Type) \in {"Model", "ContentModel"}

\* engine.isBaseField
isBaseField(field) ==
    \/ ContainsModel(field.Name)
    \/ TypeName(field.Type) \in {"Model", "ContentModel"}

\* whether a type implements orm.IContentModel: a struct with the method
\* GetLanguageID, which it has exactly by embedding orm.ContentModel
IsContentModel(t) ==
    /\ IsStruct(t)
    /\ \/ t[2] = "ContentModel"
       \/ \E i \in 1..Len(Declared(t[2])) :
             /\ Declared(t[2])[i].Anonymous
             /\ Declared(t[2])[i].Type = <<"struct", "ContentModel">>

RECURSIVE MutExtractEveryEmbeddedField(_, _, _)
MutExtractEveryEmbeddedField(embedded, addedFields, i) ==
    IF i > Len(embedded) THEN [fields |-> << >>, added |-> addedFields, err |-> ""]
    ELSE IF embedded[i].Name \notin addedFields
    THEN LET rest == MutExtractEveryEmbeddedField(embedded,
                         addedFields \cup {embedded[i].Name}, i + 1)
         IN  [fields |-> <<Fld(embedded[i].Name, embedded[i].Type)>> \o rest.fields,
              added |-> rest.added, err |-> ""]
    ELSE MutExtractEveryEmbeddedField(embedded, addedFields, i + 1)

MutExtractFailsWithoutLanguageID(embedded, addedFields, i) ==
    [fields |-> << >>, added |-> addedFields,
     err |-> IF \E j \in 1..Len(embedded) : embedded[j].Name = "LanguageID"
             THEN "" ELSE "no LanguageID"]

\* engine.extractBaseEmbeddedFields from field i on: LanguageID, with its
\* own type, unless a field of that name was added before; the error it
\* returns is nil on every path
RECURSIVE extractBaseEmbeddedFields(_, _, _)
extractBaseEmbeddedFields(embedded, addedFields, i) ==
    IF i > Len(embedded) THEN [fields |-> << >>, added |-> addedFields, err |-> ""]
    ELSE IF embedded[i].Name = "LanguageID" /\ "LanguageID" \notin addedFields
    THEN LET rest == extractBaseEmbeddedFields(embedded, addedFields \cup {"LanguageID"}, i + 1)
         IN  [fields |-> <<Fld("LanguageID", embedded[i].Type)>> \o rest.fields,
              added |-> rest.added, err |-> ""]
    ELSE extractBaseEmbeddedFields(embedded, addedFields, i + 1)

RECURSIVE MutGenerateInnerStructAddsAgain(_, _, _, _)
MutGenerateInnerStructAddsAgain(innerType, addedFields, includeForeignKeys, i) ==
    IF i > Len(innerType) THEN [fields |-> << >>, added |-> addedFields, err |-> ""]
    ELSE
      LET field == innerType[i]
          skip == MutGenerateInnerStructAddsAgain(innerType, addedFields,
                                                  includeForeignKeys, i + 1)
      IN
        IF field.Anonymous /\ isBaseField(field)
        THEN LET e == extractBaseEmbeddedFields(Declared(TypeName(field.Type)),
                                                addedFields, 1)
                 rest == MutGenerateInnerStructAddsAgain(innerType, e.added,
                                                         includeForeignKeys, i + 1)
             IN  IF e.err # "" THEN [fields |-> << >>, added |-> e.added, err |-> e.err]
                 ELSE [fields |-> e.fields \o rest.fields, added |-> rest.added,
                       err |-> rest.err]
        ELSE IF includeForeignKeys /\ HasSuffixID(field.Name) THEN skip
        ELSE LET rest == MutGenerateInnerStructAddsAgain(innerType,
                             addedFields \cup {field.Name}, includeForeignKeys, i + 1)
             IN  [fields |-> <<Fld(field.Name, field.Type)>> \o rest.fields,
                  added |-> rest.added, err |-> rest.err]

\* engine.generateInnerStruct from field i on
RECURSIVE generateInnerStruct(_, _, _, _)
generateInnerStruct(innerType, addedFields, includeForeignKeys, i) ==
    IF i > Len(innerType) THEN [fields |-> << >>, added |-> addedFields, err |-> ""]
    ELSE
      LET field == innerType[i]
          skip == generateInnerStruct(innerType, addedFields, includeForeignKeys, i + 1)
      IN
        IF field.Anonymous /\ isBaseField(field)
        THEN LET e == extractBaseEmbeddedFields(Declared(TypeName(field.Type)),
                                                addedFields, 1)
                 rest == generateInnerStruct(innerType, e.added, includeForeignKeys, i + 1)
             IN  IF e.err # "" THEN [fields |-> << >>, added |-> e.added, err |-> e.err]
                 ELSE [fields |-> e.fields \o rest.fields, added |-> rest.added,
                       err |-> rest.err]
        ELSE IF field.Name \in addedFields THEN skip
        ELSE IF includeForeignKeys /\ HasSuffixID(field.Name) THEN skip
        ELSE LET rest == generateInnerStruct(innerType, addedFields \cup {field.Name},
                                             includeForeignKeys, i + 1)
             IN  [fields |-> <<Fld(field.Name, field.Type)>> \o rest.fields,
                  added |-> rest.added, err |-> rest.err]

\* reflect.PointerTo when the shape is the update shape
Optional(optional, t) == IF optional THEN <<"ptr">> \o t ELSE t

\* no fields yet, and no error
EmptyShape == [fields |-> << >>, inner |-> << >>, err |-> ""]

\* the field loop shared, statement for statement, by GenerateCreateParameters
\* (optional = FALSE) and GenerateUpdateParameters (optional = TRUE)
RECURSIVE GenerateParametersFrom(_, _, _, _, _)
GenerateParametersFrom(modelType, optional, shape, addedFields, i) ==
    IF i > Len(modelType) THEN shape
    ELSE
      LET field == modelType[i]
          next(sh, added) == GenerateParametersFrom(modelType, optional, sh, added, i + 1)
      IN
        IF field.Anonymous \/ isBaseField(field)
        THEN IF field.Anonymous /\ isBaseField(field)
             THEN LET e == extractBaseEmbeddedFields(Declared(TypeName(field.Type)),
                                                     addedFields, 1)
                  IN  IF e.err # "" THEN [shape EXCEPT !.err = e.err]
                      ELSE next([shape EXCEPT !.fields = @ \o e.fields], e.added)
             ELSE next(shape, addedFields)
        ELSE IF IsSlice(field.Type)
        THEN IF IsStruct(Tail(field.Type))
             THEN LET g == generateInnerStruct(Declared(field.Type[3]), addedFields, TRUE, 1)
                  IN  IF g.err # "" THEN [shape EXCEPT !.err = g.err]
                      ELSE next([fields |-> Append(shape.fields,
                                         Fld(field.Name,
                                             Optional(optional, <<"slice", "inner", field.Name>>))),
                                 inner |-> MapPut(shape.inner, field.Name, g.fields),
                                 err |-> ""],
                                g.added)
             ELSE next(shape, addedFields)
        ELSE next([shape EXCEPT !.fields = Append(@, Fld(field.Name,
                                                  Optional(optional, field.Type)))],
                  addedFields)

\* engine.GenerateCreateParameters for a model type with these declared fields
GenerateCreateParametersOf(modelType) ==
    GenerateParametersFrom(modelType, FALSE, EmptyShape, {}, 1)

\* engine.GenerateUpdateParameters for a model type with these declared fields
GenerateUpdateParametersOf(modelType) ==
    GenerateParametersFrom(modelType, TRUE, EmptyShape, {}, 1)

\* the inner loop of GenerateFilterParameters over a content model's fields
RECURSIVE FlattenContentFrom(_, _, _, _)
FlattenContentFrom(innerType, fields, addedFields, j) ==
    IF j > Len(innerType) THEN [fields |-> fields, added |-> addedFields]
    ELSE
      LET innerField == innerType[j]
          skip == FlattenContentFrom(innerType, fields, addedFields, j + 1)
          add == FlattenContentFrom(innerType,
                     Append(fields, Fld(innerField.Name, <<"ptr">> \o innerField.Type)),
                     addedFields \cup {innerField.Name}, j + 1)
      IN
        IF HasSuffixID(innerField.Name) THEN skip
        ELSE IF innerField.Anonymous \/ isBaseField(innerField)
        THEN IF innerField.Name = "LanguageID" /\ innerField.Name \notin addedFields
             THEN add ELSE skip
        ELSE IF innerField.Name \notin addedFields THEN add ELSE skip

\* the field loop of GenerateFilterParameters from field i on
RECURSIVE FilterFieldsFrom(_, _, _, _)
FilterFieldsFrom(modelType, fields, addedFields, i) ==
    IF i > Len(modelType) THEN fields
    ELSE
      LET field == modelType[i]
      IN
        IF field.Anonymous \/ isBaseField(field)
        THEN FilterFieldsFrom(modelType, fields, addedFields, i + 1)
        ELSE IF IsSlice(field.Type) /\ IsStruct(Tail(field.Type))
                /\ IsContentModel(Tail(field.Type))
        THEN LET f == FlattenContentFrom(Declared(field.Type[3]), fields, addedFields, 1)
             IN  FilterFieldsFrom(modelType, f.fields, f.added, i + 1)
        ELSE IF field.Name \notin addedFields
        THEN FilterFieldsFrom(modelType,
                 Append(fields, Fld(field.Name, <<"ptr">> \o field.Type)),
                 addedFields \cup {field.Name}, i + 1)
        ELSE FilterFieldsFrom(modelType, fields, addedFields, i + 1)

\* engine.GenerateFilterParameters for a model type with these declared fields
GenerateFilterParametersOf(modelType) == FilterFieldsFrom(modelType, << >>, {}, 1)

----------------------------------------------------------------------------
(* The store behind gorm: table blogs, one row per primary key id, and     *)
(* table blog_contents.  BlogContent takes its only primary key from the   *)
(* embedded orm.ContentModel (LanguageID, "primaryKey"), so blog_contents  *)
(* holds at most one row per language id, whichever blog it belongs to;    *)
(* BlogID is an ordinary column.  The connection main opens               *)
(* (sqlite.Open("test.db")) does not enforce foreign keys, which is why a  *)
(* content row can be written with no languages row for it, and why the    *)
(* ON DELETE CASCADE of the schema does not run.                           *)
(* Every repository call takes a fault f = [at, rb]: the database step     *)
(* that fails in this call ("none", "begin", "find", "write", "commit")    *)
(* and whether a rollback, if one is attempted, fails.  A call returns the *)
(* set of its possible outcomes [db, err, model, tx, stmts, preload]: the  *)
(* store afterwards, the error ("" for nil), the model handed back, the    *)
(* state in which the call left the transaction it began, the statements   *)
(* it issued, and whether it asked to preload "Contents".                  *)

Ids == 1..MaxId
NoRecord == [absent |-> TRUE]
ZeroBlog == ZeroOf(<<"struct", "Blog">>)

\* the store with both tables empty.  seq is the highest key table blogs
\* ever held: gorm declares the key "integer PRIMARY KEY AUTOINCREMENT", so
\* sqlite hands out seq + 1 and never a key that was freed
EmptyStore == [blogs |-> [i \in Ids |-> NoRecord], contents |-> {}, seq |-> 0]

\* a path parameter {id}, handed to the repository as text: digits (a
\* primary key), text that is a condition true of every row ("1=1"), or
\* text that is no valid condition ("abc")
NumId(n) == [numeric |-> TRUE, n |-> n, cond |-> "key"]
BadId == [numeric |-> FALSE, n |-> 0, cond |-> "invalid"]
TrueId == [numeric |-> FALSE, n |-> 0, cond |-> "true"]
PathIds == {NumId(n) : n \in Ids} \cup {BadId, TrueId}

\* reflect.Type.Implements(IContentModel): GetLanguageID has a value
\* receiver, so a struct that embeds orm.ContentModel has it in its method
\* set, and so does a pointer to such a struct
ImplementsIContentModel(t) ==
    IF IsPtr(t) THEN IsContentModel(Tail(t)) ELSE IsContentModel(t)

MutHasContentsAnySlice(fields) ==
    \E i \in 1..Len(fields) :
        fields[i].Name = "Contents" /\ IsSlice(fields[i].Type)

\* repository.hasContents over the declared fields of the model type: a
\* field named Contents, of slice type, whose element type implements
\* IContentModel
hasContents(fields) ==
    \E i \in 1..Len(fields) :
        /\ fields[i].Name = "Contents"
        /\ IsSlice(fields[i].Type)
        /\ ImplementsIContentModel(Tail(fields[i].Type))

SetInAnyOrder(S) == {s \in [1..Cardinality(S) -> S] : Range(s) = S}

\* a content value as gorm hands it to the insert: foreign key and
\* timestamps set
Stamp(content, id) ==
    [content EXCEPT !.BlogID = id,
                    !.CreatedAt = IF @ = 0 THEN 1 ELSE @,
                    !.UpdatedAt = 1]

RECURSIVE StampAll(_, _, _)
StampAll(contents, id, i) ==
    IF i > Len(contents) THEN << >>
    ELSE <<Stamp(contents[i], id)>> \o StampAll(contents, id, i + 1)

\* the model after gorm saved it under id: key, timestamps and the
\* contents' foreign keys are written back into the value
Saved(model, id) ==
    [model EXCEPT !.ID = id,
                  !.CreatedAt = IF @ = 0 THEN 1 ELSE @,
                  !.UpdatedAt = 1,
                  !.Contents = StampAll(@, id, 1)]

\* the blogs row of a model value: its own columns
BlogRow(model) ==
    [ID |-> model.ID, CreatedAt |-> model.CreatedAt, UpdatedAt |-> model.UpdatedAt,
     Owner |-> model.Owner, IsPublished |-> model.IsPublished]

\* a Blog value made of a blogs row and contents
BlogOf(row, contents) ==
    [ID |-> row.ID, CreatedAt |-> row.CreatedAt, UpdatedAt |-> row.UpdatedAt,
     Contents |-> contents, Owner |-> row.Owner, IsPublished |-> row.IsPublished]

\* the Contents association saved after the model, from element i on:
\* INSERT ... ON CONFLICT (language_id) DO UPDATE SET blog_id.  An element
\* whose language has no row is inserted; one whose language has a row
\* leaves that row's content and timestamps as they are and hands the row
\* to the saved blog (gorm rewrites the columns of an association only
\* under FullSaveAssociations, which the repository never sets)
RECURSIVE UpsertRowsFrom(_, _, _)
UpsertRowsFrom(rows, contents, i) ==
    IF i > Len(contents) THEN rows
    ELSE LET held == {r \in rows : GetLanguageID(r) = GetLanguageID(contents[i])}
         IN  UpsertRowsFrom(
                 IF held = {} THEN rows \cup {contents[i]}
                 ELSE (rows \ held)
                         \cup {[r EXCEPT !.BlogID = contents[i].BlogID] : r \in held},
                 contents, i + 1)

\* table blog_contents after upserting the saved model's contents
UpsertRows(oldRows, contents) == UpsertRowsFrom(oldRows, contents, 1)

\* the store after a saved model was written: its blogs row, the upsert of
\* its contents, and the key it was written under counted in seq
StoreOf(d, saved) ==
    [blogs |-> [d.blogs EXCEPT ![saved.ID] = BlogRow(saved)],
     contents |-> UpsertRows(d.contents, saved.Contents),
     seq |-> IF saved.ID > d.seq THEN saved.ID ELSE d.seq]

\* the content rows Preload("Contents") selects for a blog: blog_id = id
ContentsOf(d, id) == {c \in d.contents : c.BlogID = id}

\* the stored record under id, its content rows as a set (a table keeps no
\* slice order)
Record(d, id) ==
    IF d.blogs[id] = NoRecord THEN NoRecord
    ELSE BlogOf(d.blogs[id], ContentsOf(d, id))

\* the values First/Find can load for the row under id: with Preload the
\* content rows in any order, without it none
Loaded(d, id, preload) ==
    IF preload
    THEN {BlogOf(d.blogs[id], c) : c \in SetInAnyOrder(ContentsOf(d, id))}
    ELSE {BlogOf(d.blogs[id], << >>)}

\* tx.First(&model, id) finds a row: digits are read as the primary key,
\* any other text as the WHERE condition itself
Found(d, id) ==
    IF id.numeric THEN id.n \in Ids /\ d.blogs[id.n] # NoRecord
    ELSE id.cond = "true" /\ \E i \in Ids : d.blogs[i] # NoRecord

\* the key of the row tx.First loads (ORDER BY id LIMIT 1)
Target(d, id) ==
    IF id.numeric THEN id.n
    ELSE CHOOSE i \in Ids :
            /\ d.blogs[i] # NoRecord
            /\ \A j \in Ids : d.blogs[j] # NoRecord => i <= j

\* the error of tx.First(&model, id) ("" when it loads a row)
FirstError(d, id, f) ==
    IF f.at = "find" THEN "find_error"
    ELSE IF id.cond = "invalid" THEN "invalid_query"
    ELSE IF ~Found(d, id) THEN "record not found"
    ELSE ""

Outcome(d, err, model, tx, stmts, preload) ==
    [db |-> d, err |-> err, model |-> model, tx |-> tx, stmts |-> stmts,
     preload |-> preload]

Fault(at, rb) == [at |-> at, rb |-> rb]

MutRolledBackKeepsOriginal(d, err, f, stmts) ==
    IF f.rb THEN Outcome(d, err, ZeroBlog, "rollback_failed", stmts, FALSE)
    ELSE Outcome(d, err, ZeroBlog, "rolledback", stmts, FALSE)

\* "if rbErr := tx.Rollback().Error; rbErr != nil { return rbErr }; return err"
RolledBack(d, err, f, stmts) ==
    IF f.rb THEN Outcome(d, "rollback_error", ZeroBlog, "rollback_failed", stmts, FALSE)
    ELSE Outcome(d, err, ZeroBlog, "rolledback", stmts, FALSE)

\* "if hasContents(model) { tx = tx.Preload("Contents") }" of GetByID and
\* GetAll, which follows the return on a failed Begin
PreloadContents(modelType, f) == f.at # "begin" /\ hasContents(modelType)

\* GenericRepository.GetByID
RepoGetByID(d, id, f) ==
    LET pre == PreloadContents(BlogDecl, f)
    IN  IF f.at = "begin"
        THEN {Outcome(d, "begin_error", ZeroBlog, "none", << >>, FALSE)}
        ELSE IF FirstError(d, id, f) # ""
        THEN {Outcome(d, FirstError(d, id, f), ZeroBlog, "open", <<"First">>, pre)}
        ELSE {Outcome(d, "", m, "open", <<"First">>, pre) :
                 m \in Loaded(d, Target(d, id), pre)}

\* every way Find can fill the slice: rows in key order, each row's contents
\* in any order
RECURSIVE LoadedAll(_, _, _)
LoadedAll(d, pre, i) ==
    IF i > MaxId THEN {<< >>}
    ELSE IF d.blogs[i] = NoRecord THEN LoadedAll(d, pre, i + 1)
    ELSE {<<m>> \o rest : m \in Loaded(d, i, pre), rest \in LoadedAll(d, pre, i + 1)}

\* GenericRepository.GetAll (the handler passes no scopes)
RepoGetAll(d, f) ==
    LET pre == PreloadContents(BlogDecl, f)
    IN  IF f.at = "begin"
        THEN {Outcome(d, "begin_error", << >>, "none", << >>, FALSE)}
        ELSE IF f.at = "find"
        THEN {Outcome(d, "find_error", << >>, "open", <<"Find">>, pre)}
        ELSE {Outcome(d, "", ms, "open", <<"Find">>, pre) : ms \in LoadedAll(d, pre, 1)}

\* GenericRepository.Create: the row gets the key after the highest one
\* ever used (no outcome past the last key of the bounded store)
RepoCreate(d, model, f) ==
    IF f.at = "begin"
    THEN {Outcome(d, "begin_error", model, "none", << >>, FALSE)}
    ELSE IF f.at = "write"
    THEN {RolledBack(d, "write_error", f, <<"Create">>)}
    ELSE IF f.at = "commit"
    THEN {Outcome(d, "commit_error", model, "commit_failed", <<"Create">>, FALSE)}
    ELSE {Outcome(StoreOf(d, Saved(model, id)), "",
                  Saved(model, id), "committed", <<"Create">>, FALSE) :
             id \in {d.seq + 1} \cap Ids}

\* GenericRepository.Update: tx.Save(model) writes the blogs row under the
\* model's key (inserting it when no row has the key) and upserts the
\* contents
RepoUpdate(d, model, f) ==
    IF f.at = "begin"
    THEN {Outcome(d, "begin_error", model, "none", << >>, FALSE)}
    ELSE IF f.at = "write"
    THEN {RolledBack(d, "write_error", f, <<"Save">>)}
    ELSE IF f.at = "commit"
    THEN {Outcome(d, "commit_error", model, "commit_failed", <<"Save">>, FALSE)}
    ELSE {Outcome(StoreOf(d, Saved(model, model.ID)), "",
                  Saved(model, model.ID), "committed", <<"Save">>, FALSE)}

MutRepoDeleteNoFetchCheck(d, id, f) ==
    IF id.numeric /\ id.n \in Ids
    THEN {Outcome([d EXCEPT !.blogs[id.n] = NoRecord], "", ZeroBlog, "committed",
                  <<"First", "Delete">>, FALSE)}
    ELSE {Outcome(d, "", ZeroBlog, "committed", <<"First", "Delete">>, FALSE)}

\* GenericRepository.Delete: fetch, then delete the fetched row by its key,
\* in one transaction; the statement touches table blogs only
RepoDelete(d, id, f) ==
    IF f.at = "begin"
    THEN {Outcome(d, "begin_error", ZeroBlog, "none", << >>, FALSE)}
    ELSE IF FirstError(d, id, f) # ""
    THEN {RolledBack(d, FirstError(d, id, f), f, <<"First">>)}
    ELSE IF f.at = "write"
    THEN {RolledBack(d, "write_error", f, <<"First", "Delete">>)}
    ELSE IF f.at = "commit"
    THEN {Outcome(d, "commit_error", ZeroBlog, "commit_failed", <<"First", "Delete">>, FALSE)}
    ELSE {Outcome([d EXCEPT !.blogs[Target(d, id)] = NoRecord], "", ZeroBlog,
                  "committed", <<"First", "Delete">>, FALSE)}

\* the faults each repository operation can meet
ReadFaults == {Fault(at, FALSE) : at \in {"none", "begin", "find"}}
WriteFaults ==
    {Fault(at, FALSE) : at \in {"none", "begin", "write", "commit"}}
        \cup {Fault("write", TRUE)}
DeleteFaults ==
    {Fault(at, rb) : at \in {"none", "find", "write"}, rb \in BOOLEAN}
        \cup {Fault("begin", FALSE), Fault("commit", FALSE)}

----------------------------------------------------------------------------
(* The REST handlers of modelService.  A handler returns the set of its    *)
(* possible results [db, resp]; resp records the request, the response     *)
(* (status, error_code, error, body), the steps the handler ran, in order, *)
(* and the repository calls it made.                                       *)

StatusOK == 200
StatusCreated == 201
StatusNoContent == 204
StatusBadRequest == 400

\* a request body: malformed, or JSON that ReadBody decodes into the shape
Malformed == [ok |-> FALSE]
Json(params) == [ok |-> TRUE, params |-> params]
NoBody == [none |-> TRUE]

\* what the handler keeps of a repository call's outcome
CallOf(op, f, o) ==
    [op |-> op, fault |-> f, err |-> o.err, tx |-> o.tx, stmts |-> o.stmts,
     preload |-> o.preload]

Exchange(method, id, reqBody, status, code, error, body, steps, calls) ==
    [method |-> method, id |-> id, reqBody |-> reqBody, status |-> status,
     code |-> code, error |-> error, body |-> body, steps |-> steps, calls |-> calls]

Result(d, r) == [db |-> d, resp |-> r]

\* GenerateCreateParameters / GenerateUpdateParameters for Blog: the shape
\* and the error
GenerateCreateParameters ==
    [err |-> GenerateCreateParametersOf(BlogDecl).err, fields |-> CreateParamFields]
GenerateUpdateParameters ==
    [err |-> GenerateUpdateParametersOf(BlogDecl).err, fields |-> UpdateParamFields]

\* modelService.GetByID
HandleGetByID(d, id, f) ==
    IF ~id.numeric
    THEN {Result(d, Exchange("GET", id, NoBody, StatusBadRequest, "CANT_READ_ID",
                             "bad id", NoBody, <<"param">>, << >>))}
    ELSE { IF o.err # ""
           THEN Result(o.db, Exchange("GET", id, NoBody, StatusBadRequest,
                                      "FETCH_READ_OBJECT_ERROR", o.err, NoBody,
                                      <<"param", "repo.GetByID">>,
                                      <<CallOf("GetByID", f, o)>>))
           ELSE Result(o.db, Exchange("GET", id, NoBody, StatusOK, "", "", o.model,
                                      <<"param", "repo.GetByID">>,
                                      <<CallOf("GetByID", f, o)>>))
           : o \in RepoGetByID(d, id, f) }

\* modelService.GetAll
HandleGetAll(d, f) ==
    { IF o.err # ""
      THEN Result(o.db, Exchange("LIST", BadId, NoBody, StatusBadRequest, "FETCH_ERROR",
                                 o.err, NoBody, <<"repo.GetAll">>, <<CallOf("GetAll", f, o)>>))
      ELSE Result(o.db, Exchange("LIST", BadId, NoBody, StatusOK, "", "", o.model,
                                 <<"repo.GetAll">>, <<CallOf("GetAll", f, o)>>))
      : o \in RepoGetAll(d, f) }

MutCreateRespondIgnoresError(body, f, o) ==
    Result(o.db, Exchange("POST", BadId, body, StatusCreated, "", "", o.model,
                          <<"generate", "parse", "build", "repo.Create">>,
                          <<CallOf("Create", f, o)>>))

\* the end of modelService.Create: the response to repo.Create's outcome
CreateRespond(body, f, o) ==
    IF o.err # ""
    THEN Result(o.db, Exchange("POST", BadId, body, StatusBadRequest,
                               "CREATE_ERROR", o.err, NoBody,
                               <<"generate", "parse", "build", "repo.Create">>,
                               <<CallOf("Create", f, o)>>))
    ELSE Result(o.db, Exchange("POST", BadId, body, StatusCreated, "", "", o.model,
                               <<"generate", "parse", "build", "repo.Create">>,
                               <<CallOf("Create", f, o)>>))

\* modelService.Create
HandleCreate(d, body, f) ==
    LET gen == GenerateCreateParameters
    IN
    IF gen.err # ""
    THEN {Result(d, Exchange("POST", BadId, body, StatusBadRequest,
                             "GENERATE_CREATE_PARAMS_ERROR", gen.err, NoBody,
                             <<"generate">>, << >>))}
    ELSE IF ~body.ok
    THEN {Result(d, Exchange("POST", BadId, body, StatusBadRequest,
                             "PARSE_CREATE_PARAMS_ERROR", "bad body", NoBody,
                             <<"generate", "parse">>, << >>))}
    ELSE
      LET built == FillModelFromCreateParameters(body.params)
      IN
      IF built.err # ""
      THEN {Result(d, Exchange("POST", BadId, body, StatusBadRequest,
                               "GENERATE_CREATE_MODEL_ERROR", built.err, NoBody,
                               <<"generate", "parse", "build">>, << >>))}
      ELSE { CreateRespond(body, f, o) : o \in RepoCreate(d, built.model, f) }

\* modelService.UpdatePatch up to its call of repo.Update: either a
\* response (done), or the model to save (with the fetch's call record)
PatchPrepare(d, id, body, f1) ==
    UNION {
      IF o.err # ""
      THEN {[done |-> TRUE,
             res |-> Result(o.db, Exchange("PATCH", id, body, StatusBadRequest,
                                           "NOT_FOUND", o.err, NoBody,
                                           <<"repo.GetByID">>, <<CallOf("GetByID", f1, o)>>))]}
      ELSE
        LET gen == GenerateUpdateParameters
        IN
        IF gen.err # ""
        THEN {[done |-> TRUE,
               res |-> Result(o.db, Exchange("PATCH", id, body, StatusBadRequest,
                                  "GENERATE_UPDATE_PARAMS_ERROR", gen.err, NoBody,
                                  <<"repo.GetByID", "generate">>,
                                  <<CallOf("GetByID", f1, o)>>))]}
        ELSE IF ~body.ok
        THEN {[done |-> TRUE,
               res |-> Result(o.db, Exchange("PATCH", id, body, StatusBadRequest,
                                  "PARSE_UPDATE_PARAMS_ERROR", "bad body", NoBody,
                                  <<"repo.GetByID", "generate", "parse">>,
                                  <<CallOf("GetByID", f1, o)>>))]}
        ELSE
          { IF u.err # ""
            THEN [done |-> TRUE,
                  res |-> Result(o.db, Exchange("PATCH", id, body, StatusBadRequest,
                                     "GENERATE_UPDATE_MODEL_ERROR", u.err, NoBody,
                                     <<"repo.GetByID", "generate", "parse", "apply">>,
                                     <<CallOf("GetByID", f1, o)>>))]
            ELSE [done |-> FALSE, model |-> u.model, fetched |-> o.model,
                  call |-> CallOf("GetByID", f1, o)]
            : u \in UpdateModelFromUpdateParameters(o.model, body.params) }
      : o \in RepoGetByID(d, id, f1) }

MutPatchSaveIgnoresError(d, id, body, p, f2) ==
    { Result(o.db, Exchange("PATCH", id, body, StatusOK, "", "", o.model,
                            <<"repo.GetByID", "generate", "parse", "apply", "repo.Update">>,
                            <<p.call, CallOf("Update", f2, o)>>))
      : o \in RepoUpdate(d, p.model, f2) }

\* the rest of modelService.UpdatePatch: repo.Update and the response
PatchSave(d, id, body, p, f2) ==
    { IF o.err # ""
      THEN Result(o.db, Exchange("PATCH", id, body, StatusBadRequest, "UPDATE_ERROR",
                                 o.err, NoBody,
                                 <<"repo.GetByID", "generate", "parse", "apply", "repo.Update">>,
                                 <<p.call, CallOf("Update", f2, o)>>))
      ELSE Result(o.db, Exchange("PATCH", id, body, StatusOK, "", "", o.model,
                                 <<"repo.GetByID", "generate", "parse", "apply", "repo.Update">>,
                                 <<p.call, CallOf("Update", f2, o)>>))
      : o \in RepoUpdate(d, p.model, f2) }

\* modelService.Delete
HandleDelete(d, id, f) ==
    { IF o.err # ""
      THEN Result(o.db, Exchange("DELETE", id, NoBody, StatusBadRequest, "DELETE_ERROR",
                                 o.err, NoBody, <<"repo.Delete">>, <<CallOf("Delete", f, o)>>))
      ELSE Result(o.db, Exchange("DELETE", id, NoBody, StatusNoContent, "", "", NoBody,
                                 <<"repo.Delete">>, <<CallOf("Delete", f, o)>>))
      : o \in RepoDelete(d, id, f) }

----------------------------------------------------------------------------
(* Input domains *)

\* content rows as the store returns them: parent key and timestamps set
StoredContents == {BlogContent(l, t, 1, 1) : l \in LangIDs, t \in Texts}
\* content values built from a request: no parent key, zero timestamps
FreshContents == {BlogContent(l, t, 0, 0) : l \in LangIDs, t \in Texts}
\* items of a request's "contents" array, in the generated inner shape
InnerContents == [LanguageID : LangIDs, Content : Texts]

DistinctKeys(contents) == Cardinality(KeysOf(contents)) = Len(contents)

NoValue == << >>
NoResp == [method |-> "none"]
NoPatch == [idle |-> TRUE]

----------------------------------------------------------------------------
(* Specification SpecMerge: GetAllContentsWithUpdated on bounded inputs    *)

InitMerge ==
    /\ inp \in [current : SeqsUpTo(StoredContents, MaxLen),
                incoming : SeqsUpTo(FreshContents, MaxLen)]
    /\ out = NoValue
    /\ stage = "in"
    /\ db = << >>
    /\ resp = NoResp
    /\ patch = NoPatch

MergeCall ==
    /\ stage = "in"
    /\ out' \in GetAllContentsWithUpdated(inp.current, inp.incoming)
    /\ stage' = "out"
    /\ UNCHANGED <<inp, db, resp, patch>>

NextMerge == MergeCall

SpecMerge == InitMerge /\ [][NextMerge]_vars

----------------------------------------------------------------------------
(* Specification SpecUpdate: UpdateModelFromUpdateParameters on a Blog as  *)
(* the repository loads it (one content row per language) and bounded      *)
(* update parameters                                                       *)

LoadedBlogs ==
    {[ID |-> 1, CreatedAt |-> 1, UpdatedAt |-> 1, Contents |-> c,
      Owner |-> "a", IsPublished |-> FALSE] :
        c \in {x \in SeqsUpTo(StoredContents, MaxLen) : DistinctKeys(x)}}

UpdateParamValues ==
    [Contents : {<< >>} \cup {<<c>> : c \in SeqsUpTo(InnerContents, MaxLen)},
     Owner : {<< >>, <<"b">>},
     IsPublished : {<< >>, <<TRUE>>}]

InitUpdate ==
    /\ inp \in [model : LoadedBlogs, params : UpdateParamValues]
    /\ out = NoValue
    /\ stage = "in"
    /\ db = << >>
    /\ resp = NoResp
    /\ patch = NoPatch

UpdateCall ==
    /\ stage = "in"
    /\ out' \in UpdateModelFromUpdateParameters(inp.model, inp.params)
    /\ stage' = "out"
    /\ UNCHANGED <<inp, db, resp, patch>>

NextUpdate == UpdateCall

SpecUpdate == InitUpdate /\ [][NextUpdate]_vars

----------------------------------------------------------------------------
(* Claims about the content merge *)

\* C1: the merge result holds exactly one element per distinct language key
\* of either input; for a key of incoming the element is an incoming
\* element, for a key of current only it is the current element.
C1_MergeOnePerKey ==
    stage = "out" =>
        LET keys == KeysOf(inp.current) \cup KeysOf(inp.incoming)
        IN  /\ KeysOf(out) = keys
            /\ Len(out) = Cardinality(keys)
            /\ \A i \in 1..Len(out) :
                  IF GetLanguageID(out[i]) \in KeysOf(inp.incoming)
                  THEN out[i] \in Range(inp.incoming)
                  ELSE out[i] \in Range(inp.current)

\* a shared key ("en" in both) and a key of current only were merged
C1_Witness ==
    /\ stage = "out"
    /\ KeysOf(inp.current) \cap KeysOf(inp.incoming) # {}
    /\ KeysOf(inp.current) \ KeysOf(inp.incoming) # {}
    /\ Len(out) = 2

\* C2 as stated: merging with an empty side returns the other side's set of
\* elements, for every collection.
C2_EmptySideIdentityAll ==
    stage = "out" =>
        /\ (inp.incoming = << >> => Range(out) = Range(inp.current))
        /\ (inp.current = << >> => Range(out) = Range(inp.incoming))

\* C2 amended: merging with an empty side returns the other side's set of
\* elements when that side has pairwise distinct language keys; in general
\* it returns a subset of that side with one element per key.
C2_EmptySideIdentityDistinct ==
    stage = "out" =>
        /\ (inp.incoming = << >> =>
              /\ Range(out) \subseteq Range(inp.current)
              /\ KeysOf(out) = KeysOf(inp.current)
              /\ (DistinctKeys(inp.current) => Range(out) = Range(inp.current)))
        /\ (inp.current = << >> =>
              /\ Range(out) \subseteq Range(inp.incoming)
              /\ KeysOf(out) = KeysOf(inp.incoming)
              /\ (DistinctKeys(inp.incoming) => Range(out) = Range(inp.incoming)))

\* a two-element collection with distinct keys was merged with an empty side
C2_Witness ==
    /\ stage = "out"
    /\ inp.incoming = << >>
    /\ Len(inp.current) = 2
    /\ DistinctKeys(inp.current)
    /\ Range(out) = Range(inp.current)

----------------------------------------------------------------------------
(* Claims about the engine's update *)

\* the last item of an update collection with language id k
LastItem(items, k) ==
    items[CHOOSE i \in 1..Len(items) :
             /\ items[i].LanguageID = k
             /\ \A j \in (i+1)..Len(items) : items[j].LanguageID # k]

\* C3: a non-null Contents parameter is merged into the model's Contents by
\* language id: one entry per key of (existing keys union update keys),
\* existing entries whose key is not in the update unchanged, every key of
\* the update carrying the update's values.
C3_ContentsMerged ==
    (stage = "out" /\ inp.params.Contents # << >>) =>
        LET old == inp.model.Contents
            upd == inp.params.Contents[1]
            new == out.model.Contents
            updKeys == {upd[i].LanguageID : i \in 1..Len(upd)}
        IN  /\ out.err = ""
            /\ KeysOf(new) = KeysOf(old) \cup updKeys
            /\ Len(new) = Cardinality(KeysOf(old) \cup updKeys)
            /\ \A i \in 1..Len(old) :
                  GetLanguageID(old[i]) \notin updKeys => old[i] \in Range(new)
            /\ \A i \in 1..Len(new) :
                  GetLanguageID(new[i]) \in updKeys =>
                      new[i].Content = LastItem(upd, GetLanguageID(new[i])).Content

\* the scenario: a model with "en" and "ar", an update with "en" only and a
\* new text: two entries, "ar" unchanged, "en" replaced
C3_Witness ==
    /\ stage = "out"
    /\ inp.model.Contents = << BlogContent("en", "x", 1, 1), BlogContent("ar", "x", 1, 1) >>
    /\ inp.params.Contents = << << [LanguageID |-> "en", Content |-> "y"] >> >>
    /\ Len(out.model.Contents) = 2
    /\ BlogContent("ar", "x", 1, 1) \in Range(out.model.Contents)
    /\ \E i \in 1..2 : /\ out.model.Contents[i].LanguageID = "en"
                       /\ out.model.Contents[i].Content = "y"

----------------------------------------------------------------------------------
(* Specification Spec: the service over the store.  The server runs each   *)
(* request on its own goroutine.  A handler that makes one repository call *)
(* is one action.  UpdatePatch makes two, repo.GetByID and repo.Update,    *)
(* each in a transaction of its own, reads the request body between them   *)
(* and holds no lock, so it is two actions and other requests can be       *)
(* served between them.  The response a handler wrote is then delivered to *)
(* the client and leaves the system (Deliver).                             *)

\* request bodies of POST /
CreateBodies ==
    {Malformed} \cup
    {Json([Contents |-> c, Owner |-> "a", IsPublished |-> FALSE]) :
        c \in { << >>,
                << [LanguageID |-> "en", Content |-> "x"],
                   [LanguageID |-> "ar", Content |-> "x"] >> }}

\* request bodies of PATCH /{id}
PatchBodies ==
    {Malformed} \cup
    {Json([Contents |-> c, Owner |-> o, IsPublished |-> << >>]) :
        c \in {<< >>, << << [LanguageID |-> "en", Content |-> "y"] >> >>},
        o \in {<< >>, <<"b">>}}

Init ==
    /\ db = EmptyStore
    /\ resp = NoResp
    /\ inp = NoValue
    /\ out = NoValue
    /\ stage = "none"
    /\ patch = NoPatch

GetByID ==
    /\ resp = NoResp
    /\ \E id \in PathIds, f \in ReadFaults :
          \E r \in HandleGetByID(db, id, f) : db' = r.db /\ resp' = r.resp
    /\ UNCHANGED <<inp, out, stage, patch>>

GetAll ==
    /\ resp = NoResp
    /\ \E f \in ReadFaults :
          \E r \in HandleGetAll(db, f) : db' = r.db /\ resp' = r.resp
    /\ UNCHANGED <<inp, out, stage, patch>>

\* modelService.Create, while the bounded store has a key left to hand out
Create ==
    /\ resp = NoResp
    /\ db.seq < MaxId
    /\ \E body \in CreateBodies, f \in WriteFaults :
          \E r \in HandleCreate(db, body, f) : db' = r.db /\ resp' = r.resp
    /\ UNCHANGED <<inp, out, stage, patch>>

\* modelService.UpdatePatch from its start to just before repo.Update
UpdatePatchFetch ==
    /\ resp = NoResp
    /\ patch = NoPatch
    /\ \E id \in PathIds, body \in PatchBodies, f1 \in ReadFaults :
          \E p \in PatchPrepare(db, id, body, f1) :
              IF p.done
              THEN db' = p.res.db /\ resp' = p.res.resp /\ patch' = NoPatch
              ELSE db' = db /\ resp' = NoResp
                   /\ patch' = [id |-> id, body |-> body, p |-> p]
    /\ UNCHANGED <<inp, out, stage>>

\* modelService.UpdatePatch from repo.Update to its response
UpdatePatchSave ==
    /\ resp = NoResp
    /\ patch # NoPatch
    /\ \E f2 \in WriteFaults :
          \E r \in PatchSave(db, patch.id, patch.body, patch.p, f2) :
              db' = r.db /\ resp' = r.resp
    /\ patch' = NoPatch
    /\ UNCHANGED <<inp, out, stage>>

Delete ==
    /\ resp = NoResp
    /\ \E id \in PathIds, f \in DeleteFaults :
          \E r \in HandleDelete(db, id, f) : db' = r.db /\ resp' = r.resp
    /\ UNCHANGED <<inp, out, stage, patch>>

\* the client has the response: the exchange is over
Deliver ==
    /\ resp # NoResp
    /\ resp' = NoResp
    /\ UNCHANGED <<db, inp, out, stage, patch>>

Next ==
    GetByID \/ GetAll \/ Create \/ UpdatePatchFetch \/ UpdatePatchSave \/ Delete
        \/ Deliver

Spec == Init /\ [][Next]_vars

----------------------------------------------------------------------
(* Claims about the repository *)

RepoCalls == IF resp = NoResp THEN {} ELSE Range(resp.calls)

\* C4: every repository operation that began a transaction has committed it
\* (on success) or rolled it back (on failure) when it returns; none
\* returns with its transaction still open.
C4_EveryTransactionEnded ==
    \A c \in RepoCalls :
        c.tx # "none" =>
            /\ c.tx # "open"
            /\ (c.err = "" => c.tx = "committed")

\* the statement a call issued last failed: the write at fault, or the
\* fetch of Delete (which fails at fault or for want of a row)
StatementFailed(c) ==
    /\ c.op \in {"Create", "Update", "Delete"}
    /\ Len(c.stmts) > 0
    /\ \/ c.op = "Delete" /\ c.stmts = <<"First">>
       \/ c.stmts[Len(c.stmts)] \in {"Create", "Save", "Delete"} /\ c.fault.at = "write"

\* the error of the failed statement itself
StatementError(c, id, d) ==
    IF c.stmts = <<"First">> THEN FirstError(d, id, c.fault) ELSE "write_error"

\* C5: in Create, Update and Delete, a failed statement followed by a failed
\* rollback returns the rollback error, not the statement's error; with a
\* successful rollback the statement's error is returned.
C5_RollbackErrorReplacesOriginal ==
    \A c \in RepoCalls :
        StatementFailed(c) =>
            /\ (c.fault.rb => c.err = "rollback_error" /\ c.tx = "rollback_failed")
            /\ (~c.fault.rb => c.err = StatementError(c, resp.id, db) /\ c.tx = "rolledback")
            /\ c.err # ""
            /\ resp.error = c.err

\* Update's Save failed and the rollback failed too: the rollback error is
\* what the PATCH handler reports
C5_Witness ==
    /\ resp # NoResp
    /\ resp.method = "PATCH"
    /\ Len(resp.calls) = 2
    /\ resp.calls[2].fault = Fault("write", TRUE)
    /\ resp.error = "rollback_error"
    /\ resp.code = "UPDATE_ERROR"

\* C6 as stated: when Delete's fetch finds no record, the delete statement
\* is not issued, the transaction is rolled back, the store is unchanged
\* and the not-found error is returned.
C6_DeleteNotFoundReturnsNotFound ==
    [][ (resp = NoResp /\ resp' # NoResp /\ resp'.method = "DELETE"
            /\ ~Found(db, resp'.id)
            /\ resp'.calls[1].fault.at \in {"none", "write", "commit"}) =>
           /\ resp'.calls[1].stmts = <<"First">>
           /\ resp'.calls[1].tx = "rolledback"
           /\ db' = db
           /\ resp'.calls[1].err = "record not found" ]_vars

\* C6 amended: when Delete's fetch finds no record, the delete statement is
\* not issued, a rollback is attempted, the store is unchanged, and the
\* fetch's error (not-found, or the database's complaint about an id that
\* is no condition it can evaluate) is returned unless the rollback fails,
\* in which case the rollback error is returned.
C6_DeleteNotFoundRollsBack ==
    [][ (resp = NoResp /\ resp' # NoResp /\ resp'.method = "DELETE"
            /\ ~Found(db, resp'.id)
            /\ resp'.calls[1].fault.at \in {"none", "write", "commit"}) =>
           /\ resp'.calls[1].stmts = <<"First">>
           /\ db' = db
           /\ IF resp'.calls[1].fault.rb
              THEN resp'.calls[1].tx = "rollback_failed"
                   /\ resp'.calls[1].err = "rollback_error"
              ELSE resp'.calls[1].tx = "rolledback"
                   /\ resp'.calls[1].err =
                         (IF resp'.id.cond = "invalid" THEN "invalid_query"
                          ELSE "record not found") ]_vars

\* a DELETE for an id nothing is stored under, while another record is
\* stored, was answered with the not-found error
C6_Witness ==
    /\ resp # NoResp
    /\ resp.method = "DELETE"
    /\ resp.id = NumId(2)
    /\ db.blogs[2] = NoRecord
    /\ db.blogs[1] # NoRecord
    /\ resp.calls[1].stmts = <<"First">>
    /\ resp.calls[1].tx = "rolledback"
    /\ resp.error = "record not found"

----------------------------------------------------------------------------
(* Claims about the handlers *)

\* a handler has just answered a request
Answered == resp = NoResp /\ resp' # NoResp

IsPrefix(s, t) == Len(s) <= Len(t) /\ \A i \in 1..Len(s) : s[i] = t[i]

\* C7: DELETE /{id} on an existing id responds 204 (the database
\* permitting) and removes the record; GET /{id} returns a record only
\* while one is stored under the id and answers 400 otherwise; and once an
\* id has no record, only a successful create stores one under it again.
C7_DeletedStaysGone ==
    [][ Answered =>
          /\ (resp'.method = "DELETE" /\ Found(db, resp'.id)
                 /\ resp'.calls[1].fault.at = "none") => resp'.status = StatusNoContent
          /\ (resp'.method = "DELETE" /\ resp'.status = StatusNoContent) =>
                 /\ Found(db, resp'.id)
                 /\ db'.blogs[Target(db, resp'.id)] = NoRecord
                 /\ \A i \in Ids \ {Target(db, resp'.id)} : db'.blogs[i] = db.blogs[i]
          /\ (resp'.method = "GET" /\ resp'.status = StatusOK) =>
                 /\ Found(db', resp'.id)
                 /\ resp'.body \in Loaded(db', resp'.id.n, TRUE)
          /\ (resp'.method = "GET" /\ ~Found(db, resp'.id)) =>
                 resp'.status = StatusBadRequest
          /\ \A i \in Ids :
                 (db.blogs[i] = NoRecord /\ db'.blogs[i] # NoRecord) =>
                     /\ resp'.method = "POST"
                     /\ resp'.status = StatusCreated
                     /\ resp'.body.ID = i ]_vars

ListedCodes ==
    {"CANT_READ_ID", "FETCH_READ_OBJECT_ERROR", "FETCH_ERROR",
     "GENERATE_CREATE_PARAMS_ERROR", "PARSE_CREATE_PARAMS_ERROR",
     "GENERATE_CREATE_MODEL_ERROR", "CREATE_ERROR", "NOT_FOUND",
     "GENERATE_UPDATE_PARAMS_ERROR", "PARSE_UPDATE_PARAMS_ERROR",
     "GENERATE_UPDATE_MODEL_ERROR", "UPDATE_ERROR", "DELETE_ERROR"}

\* the path parameter names no stored record: it is a key nothing is
\* stored under, or text that is no key at all
NamesNoRecord(d, id) == ~id.numeric \/ ~Found(d, id)

\* C8: a request naming an id nothing is stored under (when the handler
\* looks it up: the answer is not that of a PATCH that had fetched its
\* record already) is answered 400: GET with FETCH_READ_OBJECT_ERROR (with
\* CANT_READ_ID when the id is no number), PATCH with NOT_FOUND, DELETE
\* with DELETE_ERROR; and every error response of every handler has status
\* 400 and a listed code.
C8_ErrorsAre400 ==
    [][ Answered =>
          /\ resp'.status \in {StatusOK, StatusCreated, StatusNoContent, StatusBadRequest}
          /\ (resp'.code # "" \/ resp'.error # "") =>
                 /\ resp'.status = StatusBadRequest
                 /\ resp'.code \in ListedCodes
          /\ (resp'.status = StatusBadRequest) => resp'.code \in ListedCodes
          /\ (resp'.method \in {"GET", "PATCH", "DELETE"}
                 /\ (resp'.method = "PATCH" => patch = NoPatch)
                 /\ NamesNoRecord(db, resp'.id)) =>
                 /\ resp'.status = StatusBadRequest
                 /\ resp'.method = "GET" =>
                       resp'.code = (IF resp'.id.numeric THEN "FETCH_READ_OBJECT_ERROR"
                                     ELSE "CANT_READ_ID")
                 /\ resp'.method = "PATCH" => resp'.code = "NOT_FOUND"
                 /\ resp'.method = "DELETE" => resp'.code = "DELETE_ERROR" ]_vars

CreateSteps == <<"generate", "parse", "build", "repo.Create">>
CreateCodes == <<"GENERATE_CREATE_PARAMS_ERROR", "PARSE_CREATE_PARAMS_ERROR",
                 "GENERATE_CREATE_MODEL_ERROR", "CREATE_ERROR">>

\* C9: POST runs generate-shape, parse-body, build-model, repository Create
\* in that order and stops at the first failing step with that step's code
\* and status 400; repository Create is called only when the earlier steps
\* succeeded, and 201 with the created object is sent only when repository
\* Create returned no error (the object's row is then stored, and a content
\* row of each of its languages belongs to it).
C9_CreateStepsInOrder ==
    (resp # NoResp /\ resp.method = "POST") =>
        /\ Len(resp.steps) >= 1 /\ IsPrefix(resp.steps, CreateSteps)
        /\ resp.status \in {StatusCreated, StatusBadRequest}
        /\ resp.status = StatusBadRequest => resp.code = CreateCodes[Len(resp.steps)]
        /\ ~resp.reqBody.ok => resp.steps = <<"generate", "parse">>
                               /\ resp.status = StatusBadRequest
        /\ (Len(resp.calls) = 1) = (Len(resp.steps) = 4)
        /\ Len(resp.calls) <= 1
        /\ resp.calls # << >> =>
              /\ resp.calls[1].op = "Create"
              /\ GenerateCreateParameters.err = ""
              /\ resp.reqBody.ok
              /\ FillModelFromCreateParameters(resp.reqBody.params).err = ""
        /\ (resp.status = StatusCreated) = (resp.calls # << >> /\ resp.calls[1].err = "")
        /\ resp.status = StatusCreated =>
              /\ resp.body.ID \in Ids
              /\ resp.body.Owner = resp.reqBody.params.Owner
              /\ db.blogs[resp.body.ID] = BlogRow(resp.body)
              /\ \A k \in KeysOf(resp.body.Contents) :
                    \E r \in ContentsOf(db, resp.body.ID) : GetLanguageID(r) = k

\* a POST with two content entries was answered 201 with the stored object
C9_Witness ==
    /\ resp # NoResp
    /\ resp.method = "POST"
    /\ resp.status = StatusCreated
    /\ resp.steps = CreateSteps
    /\ Len(resp.body.Contents) = 2
    /\ db.blogs[resp.body.ID] # NoRecord

PatchSteps == <<"repo.GetByID", "generate", "parse", "apply", "repo.Update">>
PatchCodes == <<"NOT_FOUND", "GENERATE_UPDATE_PARAMS_ERROR", "PARSE_UPDATE_PARAMS_ERROR",
                "GENERATE_UPDATE_MODEL_ERROR", "UPDATE_ERROR">>

\* C10: PATCH runs fetch-by-id, generate-shape, parse-body, apply-update,
\* repository Update in that order and stops at the first failing step with
\* that step's code; when a step before repository Update fails the store
\* is unchanged, and 200 with the updated object is sent only when
\* repository Update returned no error.
C10_PatchStepsInOrder ==
    [][ (Answered /\ resp'.method = "PATCH") =>
          /\ Len(resp'.steps) >= 1 /\ IsPrefix(resp'.steps, PatchSteps)
          /\ resp'.status \in {StatusOK, StatusBadRequest}
          /\ resp'.status = StatusBadRequest => resp'.code = PatchCodes[Len(resp'.steps)]
          /\ resp'.calls[1].op = "GetByID"
          /\ resp'.calls[1].err # "" => resp'.steps = <<"repo.GetByID">>
                                        /\ resp'.status = StatusBadRequest
          /\ (resp'.calls[1].err = "" /\ ~resp'.reqBody.ok) =>
                 /\ resp'.steps = <<"repo.GetByID", "generate", "parse">>
                 /\ resp'.status = StatusBadRequest
          /\ (Len(resp'.calls) = 2) = (Len(resp'.steps) = 5)
          /\ Len(resp'.calls) = 2 =>
                 /\ resp'.calls[2].op = "Update"
                 /\ resp'.calls[1].err = ""
                 /\ resp'.reqBody.ok
          /\ Len(resp'.calls) < 2 => db' = db
          /\ (resp'.status = StatusOK) = (Len(resp'.calls) = 2 /\ resp'.calls[2].err = "")
          /\ resp'.status = StatusBadRequest => db' = db
          /\ resp'.status = StatusOK =>
                 /\ resp'.body.ID = patch.p.fetched.ID
                 /\ resp'.id.numeric => resp'.body.ID = resp'.id.n
                 /\ db' = StoreOf(db, resp'.body)
                 /\ \A i \in Ids \ {resp'.body.ID} : db'.blogs[i] = db.blogs[i] ]_vars

\* a PATCH changing the owner and the "en" content of a record with two
\* content rows was answered 200 and the stored row holds the new owner
C10_Witness ==
    /\ resp # NoResp
    /\ resp.method = "PATCH"
    /\ resp.status = StatusOK
    /\ resp.steps = PatchSteps
    /\ resp.reqBody.params.Owner = <<"b">>
    /\ resp.reqBody.params.Contents # << >>
    /\ resp.id.numeric
    /\ db.blogs[resp.id.n].Owner = "b"
    /\ Cardinality(ContentsOf(db, resp.id.n)) = 2

----------------------------------------------------------------------------
(* Specification SpecShape: the three generators on bounded model types    *)

\* the fields a drawn model type may declare
FieldPool ==
    { Decl("Model", <<"struct", "Model">>, TRUE),
      Decl("ContentModel", <<"struct", "ContentModel">>, TRUE),
      Decl("Audit", <<"struct", "Audit">>, TRUE),
      Decl("Owner", <<"string">>, FALSE),
      Decl("Contents", <<"slice", "struct", "BlogContent">>, FALSE),
      Decl("Notes", <<"slice", "struct", "Note">>, FALSE),
      Decl("Tags", <<"slice", "string">>, FALSE),
      Decl("ModelName", <<"string">>, FALSE),
      Decl("Parent", <<"struct", "Model">>, FALSE) }

\* struct types: up to MaxFields fields of the pool, names pairwise distinct
ModelTypes ==
    {t \in SeqsUpTo(FieldPool, MaxFields) :
        Len(t) > 0 /\ \A i, j \in 1..Len(t) : i # j => t[i].Name # t[j].Name}

InitShape ==
    /\ inp \in ModelTypes
    /\ out = NoValue
    /\ stage = "in"
    /\ db = << >>
    /\ resp = NoResp
    /\ patch = NoPatch

GenerateCall ==
    /\ stage = "in"
    /\ out' = [create |-> GenerateCreateParametersOf(inp),
               update |-> GenerateUpdateParametersOf(inp),
               filter |-> GenerateFilterParametersOf(inp)]
    /\ stage' = "out"
    /\ UNCHANGED <<inp, db, resp, patch>>

NextShape == GenerateCall

SpecShape == InitShape /\ [][NextShape]_vars

----------------------------------------------------------------------------
(* Claims about the generated shapes *)

DeclaredNames(t) == {t[i].Name : i \in 1..Len(t)}
CountName(fields, n) == Cardinality({i \in 1..Len(fields) : fields[i].Name = n})

\* C11 as stated: every field of the update shape is a pointer, a
\* LanguageID taken from an embedded base included, and the update shape
\* has the field names of the create shape.
C11_UpdateShapeAllOptional ==
    stage = "out" =>
        /\ \A i \in 1..Len(out.update.fields) : IsPtr(out.update.fields[i].Type)
        /\ FieldNames(out.update.fields) = FieldNames(out.create.fields)

\* the fields of the embedded bases other than the language identifier
BaseOnlyNames == {"ID", "CreatedAt", "UpdatedAt", "Language"}

\* the declared fields of t the generators treat as the model's own
OwnFields(t) == {i \in 1..Len(t) : ~t[i].Anonymous /\ ~isBaseField(t[i])}

\* C12: the create shape holds no ID, CreatedAt or UpdatedAt (nor Language)
\* of an embedded base, at the top level or in a nested shape: each of its
\* fields is a declared own field of the struct it was generated from, or
\* LanguageID with the base's type.
C12_CreateShapeExcludesBaseFields ==
    stage = "out" =>
        /\ FieldNames(out.create.fields) \cap BaseOnlyNames = {}
        /\ \A i \in 1..Len(out.create.fields) :
              \/ out.create.fields[i] = Fld("LanguageID", <<"string">>)
              \/ \E k \in OwnFields(inp) : inp[k].Name = out.create.fields[i].Name
        /\ \A n \in DOMAIN out.create.inner :
              /\ FieldNames(out.create.inner[n]) \cap BaseOnlyNames = {}
              /\ \E k \in OwnFields(inp) :
                    /\ inp[k].Name = n
                    /\ \A j \in 1..Len(out.create.inner[n]) :
                          \/ out.create.inner[n][j] = Fld("LanguageID", <<"string">>)
                          \/ \E m \in OwnFields(Declared(inp[k].Type[3])) :
                                Declared(inp[k].Type[3])[m].Name = out.create.inner[n][j].Name

\* a model embedding orm.Model with a Contents slice: the nested shape has
\* LanguageID from BlogContent's embedded ContentModel, and nothing of Model
C12_Witness ==
    /\ stage = "out"
    /\ \E i \in 1..Len(inp) : inp[i].Name = "Model" /\ inp[i].Anonymous
    /\ "Contents" \in DOMAIN out.create.inner
    /\ out.create.inner["Contents"] =
          << Fld("LanguageID", <<"string">>), Fld("Content", <<"string">>) >>

\* C13 as stated: every own (non-base) field of the model is in the create
\* shape: a scalar with its type, a slice of structs as a slice of the
\* generated nested struct, any other slice as it is.
C13_CreateShapeHasEveryOwnField ==
    stage = "out" =>
        \A k \in OwnFields(inp) :
            \E i \in 1..Len(out.create.fields) :
                /\ out.create.fields[i].Name = inp[k].Name
                /\ out.create.fields[i].Type =
                      IF IsSlice(inp[k].Type) /\ IsStruct(Tail(inp[k].Type))
                      THEN <<"slice", "inner", inp[k].Name>>
                      ELSE inp[k].Type

\* C14 as stated: for a model with a Contents slice of content models, the
\* filter shape has LanguageID exactly once, no other field of the content
\* whose name ends in ID, and the content's other own fields once each.
C14_FilterShapeKeepsLanguageID ==
    (stage = "out" /\ \E k \in OwnFields(inp) :
                         inp[k].Name = "Contents" /\ IsContentModel(Tail(inp[k].Type))) =>
        /\ CountName(out.filter, "LanguageID") = 1
        /\ CountName(out.filter, "BlogID") = 0
        /\ CountName(out.filter, "Content") = 1

----------------------------------------------------------------------------
(* Specification SpecCopy: copyStruct on bounded pairs of structs          *)

CopierTypes == {"Plain", "PlainRev", "Ptrs", "Signed", "Flagged"}

\* the values of a type drawn as inputs; 200 and -56 are the same byte
RECURSIVE ValuesOf(_)
ValuesOf(t) ==
    CASE t = <<"string">> -> Texts
      [] t = <<"bool">> -> BOOLEAN
      [] t = <<"uint8">> -> {1, 200}
      [] t = <<"int8">> -> {1, -56}
      [] IsPtr(t) -> {<< >>} \cup {<<v>> : v \in ValuesOf(Tail(t))}
      [] OTHER -> {0}

\* the values of a struct type with these fields, built field by field
RECURSIVE StructValuesFrom(_, _)
StructValuesFrom(fields, i) ==
    IF i > Len(fields) THEN {<< >>}
    ELSE {MapPut(rest, fields[i].Name, v) :
             rest \in StructValuesFrom(fields, i + 1), v \in ValuesOf(fields[i].Type)}

StructValues(fields) == StructValuesFrom(fields, 1)

InitCopy ==
    /\ \E dstT \in CopierTypes, srcT \in CopierTypes :
          \E dst \in StructValues(StructFields(dstT)), src \in StructValues(StructFields(srcT)) :
              inp = [dstT |-> dstT, srcT |-> srcT, dst |-> dst, src |-> src]
    /\ out = NoValue
    /\ stage = "in"
    /\ db = << >>
    /\ resp = NoResp
    /\ patch = NoPatch

CopyCall ==
    /\ stage = "in"
    /\ out' = copyStruct(StructFields(inp.dstT), inp.dst, StructFields(inp.srcT), inp.src)
    /\ stage' = "out"
    /\ UNCHANGED <<inp, db, resp, patch>>

NextCopy == CopyCall

SpecCopy == InitCopy /\ [][NextCopy]_vars

----------------------------------------------------------------------------
(* Claims about the copier *)

DstFields == StructFields(inp.dstT)
SrcFields == StructFields(inp.srcT)

\* the source field is a pointer chain that ends in nil
NilSource(i) ==
    LET s == DerefSrc(SrcFields[i].Type, inp.src[SrcFields[i].Name]) IN IsPtr(s.t)

\* the pair of same-named fields has types that are neither assignable nor
\* convertible once the pointers are followed
Incompatible(i) ==
    /\ SrcFields[i].Name \in FieldNames(DstFields)
    /\ LET st == BaseType(SrcFields[i].Type)
           dt == BaseType(FieldType(DstFields, SrcFields[i].Name))
       IN  st # dt /\ ~ConvertibleTo(st, dt)

\* C15 as stated: a source field whose pointer chain ends in nil is skipped:
\* it raises no error, the destination field keeps its value, and when no
\* pair of fields is incompatible the call succeeds.
C15_NilSourceSkipped ==
    stage = "out" =>
        /\ \A i \in 1..Len(SrcFields) :
              (NilSource(i) /\ SrcFields[i].Name \in FieldNames(DstFields)) =>
                  /\ ~(out.err # "" /\ out.field = SrcFields[i].Name)
                  /\ out.val[SrcFields[i].Name] = inp.dst[SrcFields[i].Name]
        /\ (\A i \in 1..Len(SrcFields) : ~Incompatible(i)) => out.err = ""

\* C16 as stated: between structs with the same field names and types the
\* copy succeeds and every destination field equals the source's.
C16_IdenticalStructsRoundTrip ==
    (stage = "out" /\ Range(DstFields) = Range(SrcFields)) =>
        /\ out.err = ""
        /\ \A n \in FieldNames(SrcFields) : out.val[n] = inp.src[n]

\* C17 as stated: when a same-named pair is incompatible (and no source
\* pointer is nil) the call fails with a type mismatch naming the first
\* such field, and every other destination field keeps its value.
C17_MismatchLeavesOthersUntouched ==
    (/\ stage = "out"
     /\ \E i \in 1..Len(SrcFields) : Incompatible(i)
     /\ \A i \in 1..Len(SrcFields) : ~NilSource(i)) =>
        LET first == CHOOSE i \in 1..Len(SrcFields) :
                        Incompatible(i) /\ \A j \in 1..(i - 1) : ~Incompatible(j)
        IN  /\ out.err = "type mismatch"
            /\ out.field = SrcFields[first].Name
            /\ \A n \in FieldNames(DstFields) \ {out.field} : out.val[n] = inp.dst[n]

----------------------------------------------------------------------------
(* Specification SpecApply: UpdateModelFromUpdateParameters on the Blog    *)
(* model and on a model with other slice fields                            *)

Articles ==
    {[ID |-> 1, CreatedAt |-> 1, UpdatedAt |-> 1, Owner |-> "a", Notes |-> n, Tags |-> t] :
        n \in {<< >>, <<[Text |-> "y", Content |-> "y", AuthorID |-> 1]>>},
        t \in SeqsUpTo(Texts, 1)}

ArticleUpdateValues ==
    [Owner : {<< >>, <<"b">>},
     Notes : {<< >>, << << >> >>, << <<[Text |-> "x", Content |-> "x"]>> >>},
     Tags : {<< >>} \cup {<<t>> : t \in SeqsUpTo(Texts, MaxLen)},
     Extra : {<< >>, <<"x">>}]

InitApply ==
    /\ \/ inp \in [modelT : {"Blog"}, paramFields : {UpdateParamFields},
                   model : LoadedBlogs, params : UpdateParamValues]
       \/ inp \in [modelT : {"Article"}, paramFields : {ArticleUpdateFields},
                   model : Articles, params : ArticleUpdateValues]
    /\ out = NoValue
    /\ stage = "in"
    /\ db = << >>
    /\ resp = NoResp
    /\ patch = NoPatch

ApplyCall ==
    /\ stage = "in"
    /\ out' \in UpdateFieldsFrom(StructFields(inp.modelT), inp.model,
                                 inp.paramFields, inp.params, 1)
    /\ stage' = "out"
    /\ UNCHANGED <<inp, db, resp, patch>>

NextApply == ApplyCall

SpecApply == InitApply /\ [][NextApply]_vars

\* the parameter fields the update leaves out (null pointers)
NullParams == {n \in FieldNames(inp.paramFields) : inp.params[n] = << >>}

\* C19: every model field whose update parameter is a null pointer, and
\* every model field the parameters do not name, has the value it had
\* before the call.
C19_NullParamsLeaveFieldsUnchanged ==
    stage = "out" =>
        \A n \in FieldNames(StructFields(inp.modelT)) :
            (n \in NullParams \/ n \notin FieldNames(inp.paramFields)) =>
                out.model[n] = inp.model[n]

\* a partial update: Owner given and copied, Contents left out and kept
C19_Witness ==
    /\ stage = "out"
    /\ inp.modelT = "Blog"
    /\ inp.params.Owner = <<"b">>
    /\ inp.params.Contents = << >>
    /\ Len(inp.model.Contents) = 2
    /\ out.model.Owner = "b"
    /\ out.model.Contents = inp.model.Contents

\* C20 as stated: after a successful call every non-null parameter with a
\* same-named model field is in the model: a scalar as the parameter's
\* value, a slice other than Contents with the parameter's elements.
C20_NonNullParamsCopied ==
    (stage = "out" /\ out.err = "") =>
        \A i \in 1..Len(inp.paramFields) :
            LET n == inp.paramFields[i].Name
                t == Tail(inp.paramFields[i].Type)
            IN  (n \notin NullParams /\ n \in FieldNames(StructFields(inp.modelT))
                    /\ n # "Contents") =>
                    IF IsSlice(t) /\ IsStruct(Tail(t))
                    THEN /\ Len(out.model[n]) = Len(inp.params[n][1])
                         /\ \A j \in 1..Len(out.model[n]) :
                               out.model[n][j].Text = inp.params[n][1][j].Text
                    ELSE out.model[n] = inp.params[n][1]

----------------------------------------------------------------------------
(* Specification SpecFill: FillModelFromCreateParameters on parameter      *)
(* structs that match the model, name a field the model lacks, name an     *)
(* unexported field, or differ from the model on a type, which the copier  *)
(* converts (int8 to uint8) or rejects                                     *)

\* create parameters for Blog: the generated shape, one with pointer
\* elements, one whose Contents elements are strings, and one whose
\* Contents elements are structs with a field BlogContent cannot take
CreatePtrParamFields ==
    << Fld("Contents", <<"slice", "ptr", "struct", "InnerContent">>),
       Fld("Owner", <<"string">>), Fld("IsPublished", <<"bool">>) >>
CreateTextParamFields ==
    << Fld("Contents", <<"slice", "string">>),
       Fld("Owner", <<"string">>), Fld("IsPublished", <<"bool">>) >>

CreateCodeParamFields ==
    << Fld("Contents", <<"slice", "struct", "CodeContent">>),
       Fld("Owner", <<"string">>), Fld("IsPublished", <<"bool">>) >>

\* create parameters for Vault; SignedFields has Rank as an int8, which
\* converts to the model's uint8, and a Note the model lacks
VaultExtraParamFields ==
    << Fld("Owner", <<"string">>), Fld("Extra", <<"string">>), Fld("Rank", <<"uint8">>) >>
VaultFlagParamFields == << Fld("Owner", <<"bool">>), Fld("Rank", <<"uint8">>) >>
VaultSecretParamFields ==
    << Fld("Owner", <<"string">>), Fld("secret", <<"string">>), Fld("Rank", <<"bool">>) >>
VaultPtrParamFields ==
    << Fld("Owner", <<"ptr", "string">>), Fld("Rank", <<"ptr", "uint8">>) >>
VaultParamShapes ==
    {VaultExtraParamFields, VaultFlagParamFields, VaultSecretParamFields,
     VaultPtrParamFields, SignedFields}

FillInput(modelT, cpFields, params) ==
    [modelT |-> modelT, cpFields |-> cpFields, params |-> params]

BlogFillInputs ==
    {FillInput("Blog", CreateParamFields, [Contents |-> c, Owner |-> o, IsPublished |-> b]) :
        c \in SeqsUpTo(InnerContents, MaxLen), o \in Texts, b \in BOOLEAN}
BlogPtrFillInputs ==
    {FillInput("Blog", CreatePtrParamFields, [Contents |-> c, Owner |-> "a", IsPublished |-> TRUE]) :
        c \in SeqsUpTo({<< >>} \cup {<<e>> : e \in InnerContents}, MaxLen)}
BlogTextFillInputs ==
    {FillInput("Blog", CreateTextParamFields, [Contents |-> c, Owner |-> "a", IsPublished |-> TRUE]) :
        c \in SeqsUpTo(Texts, 1)}
BlogCodeFillInputs ==
    {FillInput("Blog", CreateCodeParamFields, [Contents |-> c, Owner |-> "a", IsPublished |-> TRUE]) :
        c \in SeqsUpTo([LanguageID : LangIDs, Content : {TRUE}], 1)}
VaultFillInputs(fs) == {FillInput("Vault", fs, v) : v \in StructValues(fs)}

InitFill ==
    /\ \/ inp \in BlogFillInputs
       \/ inp \in BlogPtrFillInputs
       \/ inp \in BlogTextFillInputs
       \/ inp \in BlogCodeFillInputs
       \/ \E fs \in VaultParamShapes : inp \in VaultFillInputs(fs)
    /\ out = NoValue
    /\ stage = "in"
    /\ db = << >>
    /\ resp = NoResp
    /\ patch = NoPatch

FillCall ==
    /\ stage = "in"
    /\ out' = FillFieldsFrom(StructFields(inp.modelT), ZeroOf(<<"struct", inp.modelT>>),
                             inp.cpFields, inp.params, 1)
    /\ stage' = "out"
    /\ UNCHANGED <<inp, db, resp, patch>>

NextFill == FillCall

SpecFill == InitFill /\ [][NextFill]_vars

FillModelFields == StructFields(inp.modelT)
\* the parameter field at position i has no field of its name in the model
MissingInModel(i) == inp.cpFields[i].Name \notin FieldNames(FillModelFields)
\* the model field of its name is unexported
Unsettable(i) == ~MissingInModel(i) /\ inp.cpFields[i].Name = "secret"

\* what the parameter's value is once its pointers are followed: a type and
\* a value, or nothing when a pointer on the way is null
RECURSIVE Pointee(_, _)
Pointee(t, v) ==
    IF t[1] # "ptr" THEN [null |-> FALSE, t |-> t, v |-> v]
    ELSE IF v = << >> THEN [null |-> TRUE, t |-> t, v |-> v]
    ELSE Pointee(Tail(t), v[1])

\* the copier takes a value v of type st for a destination of type dt: no
\* pointer on the way to the value is null, and the type reached is the
\* destination's (pointers followed) or converts to it
Accepts(dt, st, v) ==
    LET p == Pointee(st, v)
    IN  ~p.null /\ (p.t = BaseType(dt) \/ ConvertibleTo(p.t, BaseType(dt)))

\* the destination of type dt once the copier has stored v in it: the
\* value reached, converted when the types differ
Copied(dt, st, v) ==
    LET p == Pointee(st, v)
    IN  WrapDst(dt, IF p.t = BaseType(dt) THEN p.v ELSE Convert(p.v, BaseType(dt)))

\* the fields of a struct of type st that a struct of type et has a
\* settable field for
SharedFields(et, st) ==
    {f \in FieldNames(StructFields(st[2])) :
        f \in FieldNames(StructFields(et[2])) /\ CanSet(f)}

\* an element e of a slice parameter (elements of type st) can be stored in
\* an element of type et: a null pointer is passed over; a struct is copied
\* into a struct field by field and every shared field must be accepted;
\* anything else must be accepted as a whole
ElementFits(et, st, e) ==
    IF st[1] = "ptr" /\ e = << >> THEN TRUE
    ELSE LET t == IF st[1] = "ptr" THEN Tail(st) ELSE st
             v == IF st[1] = "ptr" THEN e[1] ELSE e
         IN  IF t[1] = "struct" /\ et[1] = "struct"
             THEN \A f \in SharedFields(et, t) :
                      Accepts(FieldType(StructFields(et[2]), f),
                              FieldType(StructFields(t[2]), f), v[f])
             ELSE Accepts(et, t, v)

\* the copier rejects the parameter field at position i: its value, or an
\* element of it when it is a slice, is not accepted
Mismatch(i) ==
    LET n == inp.cpFields[i].Name
        ct == inp.cpFields[i].Type
        mt == FieldType(FillModelFields, n)
    IN  /\ ~MissingInModel(i)
        /\ ~Unsettable(i)
        /\ IF ct[1] = "slice"
           THEN \E j \in 1..Len(inp.params[n]) :
                    ~ElementFits(Tail(mt), Tail(ct), inp.params[n][j])
           ELSE ~Accepts(mt, ct, inp.params[n])

\* the first parameter field, in declaration order, that stops the fill
Stops(i) == Unsettable(i) \/ Mismatch(i)
FirstStop ==
    IF \E i \in 1..Len(inp.cpFields) : Stops(i)
    THEN CHOOSE i \in 1..Len(inp.cpFields) :
             Stops(i) /\ \A k \in 1..(i - 1) : ~Stops(k)
    ELSE 0

\* an element m of the model's slice holds the parameter element e: zero
\* for a null pointer; for a struct each shared field copied and every
\* other field zero; else the value copied
ElementFilled(et, st, m, e) ==
    IF st[1] = "ptr" /\ e = << >> THEN m = ZeroOf(et)
    ELSE LET t == IF st[1] = "ptr" THEN Tail(st) ELSE st
             v == IF st[1] = "ptr" THEN e[1] ELSE e
         IN  IF t[1] = "struct" /\ et[1] = "struct"
             THEN \A f \in FieldNames(StructFields(et[2])) :
                      m[f] = IF f \in SharedFields(et, t)
                             THEN Copied(FieldType(StructFields(et[2]), f),
                                         FieldType(StructFields(t[2]), f), v[f])
                             ELSE ZeroOf(FieldType(StructFields(et[2]), f))
             ELSE m = Copied(et, t, v)

\* C18 as stated: a parameter field with no field of its name in the model
\* makes the fill fail with the cannot-be-set error.
C18_MissingDestinationFails ==
    (stage = "out" /\ \E i \in 1..Len(inp.cpFields) : MissingInModel(i)) =>
        out.err = "cannot be set"

\* C18, amended: a parameter field the model has no field for is skipped;
\* the fill fails with the cannot-be-set error at a parameter field whose
\* model field is unexported, and with the copier's type-mismatch error at
\* one the copier rejects (a type neither the model field's nor convertible
\* to it, in the field or in a field of a struct element of a slice, or a
\* null pointer), whichever comes first, handing back no model; otherwise
\* it succeeds, and every model field named by a parameter holds the
\* parameter's value, converted where the types differ (a null element of
\* a slice parameter gives a zero element), and every other field is zero.
C18_FillSkipsMissingFields ==
    stage = "out" =>
        /\ out.err = (IF FirstStop = 0 THEN ""
                      ELSE IF Unsettable(FirstStop) THEN "cannot be set"
                      ELSE "type mismatch")
        /\ out.err # "" => out.model = NilModel
        /\ out.err = "" =>
             \A n \in FieldNames(FillModelFields) :
                LET mt == FieldType(FillModelFields, n)
                IN  IF n \notin FieldNames(inp.cpFields)
                    THEN out.model[n] = ZeroOf(mt)
                    ELSE LET ct == FieldType(inp.cpFields, n)
                         IN  IF ct[1] = "slice"
                             THEN /\ Len(out.model[n]) = Len(inp.params[n])
                                  /\ \A j \in 1..Len(inp.params[n]) :
                                        ElementFilled(Tail(mt), Tail(ct),
                                                      out.model[n][j], inp.params[n][j])
                             ELSE out.model[n] = Copied(mt, ct, inp.params[n])

\* a fill that succeeds although the parameters name a field the model lacks
C18_Witness ==
    /\ stage = "out"
    /\ inp.cpFields = VaultExtraParamFields
    /\ out.err = ""
    /\ out.model.Owner = inp.params.Owner
    /\ out.model.Rank = 200
    /\ out.model.secret = ""

----------------------------------------------------------------------------
(* Specification SpecLife: a Blog model through any sequence of            *)
(* FillModelFromCreateParameters and UpdateModelFromUpdateParameters       *)
(* calls.  inp is the call that has just run (its kind, the model before   *)
(* it and its parameters), out its result; calls run one after another.    *)

\* the languages of the contents in play
LifeLangs == {"en", "ar"}
\* a request item whose "content" key is absent decodes to ""
LifeItems == [LanguageID : LifeLangs, Content : {"", "x"}]
LifeCodeItems == [LanguageID : LifeLangs, Content : {TRUE}]
\* models as the repository loads them: stored rows, one per language
LifeLoaded ==
    {[ID |-> 1, CreatedAt |-> 1, UpdatedAt |-> 1, Contents |-> c,
      Owner |-> "a", IsPublished |-> FALSE] :
        c \in {x \in SeqsUpTo({BlogContent(l, "y", 1, 1) : l \in LifeLangs}, MaxLen) :
                  DistinctKeys(x)}}

NoCall == [op |-> "none"]

InitLife ==
    /\ inp = NoCall
    /\ out \in {[model |-> m, err |-> ""] : m \in LifeLoaded}
    /\ stage = "in"
    /\ db = << >>
    /\ resp = NoResp
    /\ patch = NoPatch

\* FillModelFromCreateParameters(createParams) with the generated shape
FillStep ==
    /\ inp = NoCall
    /\ \E c \in SeqsUpTo(LifeItems, MaxLen) :
          LET params == [Contents |-> c, Owner |-> "a", IsPublished |-> FALSE]
          IN  /\ inp' = [op |-> "fill", before |-> out.model, params |-> params]
              /\ out' = FillModelFromCreateParameters(params)
    /\ UNCHANGED <<stage, db, resp, patch>>

\* UpdateModelFromUpdateParameters(model, updateParams) with the generated
\* shape
UpdateStep ==
    /\ inp = NoCall
    /\ \E c \in {<< >>} \cup {<<x>> : x \in SeqsUpTo(LifeItems, MaxLen)} :
          LET params == [Contents |-> c, Owner |-> << >>, IsPublished |-> << >>]
          IN  /\ inp' = [op |-> "update", before |-> out.model, params |-> params]
              /\ out' \in UpdateModelFromUpdateParameters(out.model, params)
    /\ UNCHANGED <<stage, db, resp, patch>>

\* UpdateModelFromUpdateParameters(model, updateParams) with items that do
\* not fit the content type
UpdateCodeStep ==
    /\ inp = NoCall
    /\ \E c \in {<<x>> : x \in SeqsUpTo(LifeCodeItems, MaxLen)} :
          LET params == [Contents |-> c, Owner |-> << >>, IsPublished |-> << >>]
          IN  /\ inp' = [op |-> "updateCode", before |-> out.model, params |-> params]
              /\ out' \in UpdateFieldsFrom(BlogFields, out.model,
                                           UpdateCodeParamFields, params, 1)
    /\ UNCHANGED <<stage, db, resp, patch>>

\* the call has returned: its caller holds the model for the next call
ReturnStep ==
    /\ inp # NoCall
    /\ inp' = NoCall
    /\ UNCHANGED <<out, stage, db, resp, patch>>

NextLife == FillStep \/ UpdateStep \/ UpdateCodeStep \/ ReturnStep

SpecLife == InitLife /\ [][NextLife]_vars

\* C21 as stated: every model a sequence of fill and update calls produces
\* holds at most one Contents entry per language id.
C21_OneContentPerLanguage ==
    inp.op # "none" => DistinctKeys(out.model.Contents)

\* the update items of the last call, and their language keys
LifeUpdateItems == IF inp.params.Contents = << >> THEN << >> ELSE inp.params.Contents[1]
LifeUpdateKeys == {LifeUpdateItems[i].LanguageID : i \in 1..Len(LifeUpdateItems)}

\* C26: handleContentUpdate never fails, and update entries that cannot be
\* copied into the content type are dropped: after such an update the
\* call's error is nil and Contents holds exactly the entry that was there
\* for each language key, and nothing for the keys of the dropped entries.
C26_FailedEntriesDropped ==
    /\ inp.op \in {"update", "updateCode"} => out.err = ""
    /\ inp.op = "updateCode" =>
          LET old == inp.before.Contents
              new == out.model.Contents
          IN  /\ Range(new) = {LastWithKey(old, k) : k \in KeysOf(old)}
              /\ Len(new) = Cardinality(KeysOf(old))

\* entries for "en" and "ar" that do not fit, on a model holding "en" only:
\* no error, "en" as it was, no "ar"
C26_Witness ==
    /\ inp.op = "updateCode"
    /\ LifeUpdateKeys = {"en", "ar"}
    /\ inp.before.Contents = << BlogContent("en", "y", 1, 1) >>
    /\ out.err = ""
    /\ out.model.Contents = << BlogContent("en", "y", 1, 1) >>

\* C27: every language key in Contents before an update call is in
\* Contents after it.
C27_LanguageKeysNeverShrink ==
    inp.op \in {"update", "updateCode"} =>
        KeysOf(inp.before.Contents) \subseteq KeysOf(out.model.Contents)

\* an update for "ar" on a model holding "en" and "ar": both keys remain
C27_Witness ==
    /\ inp.op = "update"
    /\ LifeUpdateKeys = {"ar"}
    /\ KeysOf(inp.before.Contents) = {"en", "ar"}
    /\ KeysOf(out.model.Contents) = {"en", "ar"}

\* C28: an update entry with the language key of an existing entry replaces
\* it by a zero content filled from the update entry alone: the parent key
\* and the timestamps are zero, and Content is the entry's, "" included.
C28_ReplacedEntryStartsFromZero ==
    inp.op = "update" =>
        \A k \in LifeUpdateKeys \cap KeysOf(inp.before.Contents) :
            \E i \in 1..Len(out.model.Contents) :
                /\ out.model.Contents[i] =
                       BlogContent(k, LastItem(LifeUpdateItems, k).Content, 0, 0)
                /\ \A j \in 1..Len(out.model.Contents) :
                      out.model.Contents[j].LanguageID = k => j = i

\* a stored "en" entry replaced by an update entry without content: the
\* text, the parent key and the timestamps are all reset
C28_Witness ==
    /\ inp.op = "update"
    /\ inp.before.Contents = << BlogContent("en", "y", 1, 1) >>
    /\ LifeUpdateItems = << [LanguageID |-> "en", Content |-> ""] >>
    /\ out.model.Contents = << BlogContent("en", "", 0, 0) >>

----------------------------------------------------------------------------
(* Specification SpecRemerge: GetAllContentsWithUpdated applied to its own *)
(* result and the same input                                               *)

\* GetAllContentsWithUpdated(GetAllContentsWithUpdated(current, incoming),
\* incoming): out keeps both results
MergeAgain ==
    /\ stage = "out"
    /\ \E s \in GetAllContentsWithUpdated(out, inp.incoming) :
          out' = [first |-> out, second |-> s]
    /\ stage' = "again"
    /\ UNCHANGED <<inp, db, resp, patch>>

NextRemerge == MergeCall \/ MergeAgain

SpecRemerge == InitMerge /\ [][NextRemerge]_vars

\* C22: merging incoming into the merge of current and incoming gives the
\* elements the first merge gave.
C22_MergeIdempotent ==
    stage = "again" =>
        /\ Range(out.second) = Range(out.first)
        /\ Len(out.second) = Len(out.first)

\* incoming repeats "en" and overrides a current "en": the first merge holds
\* the last incoming "en" and "ar" from current, and so does the second
C22_Witness ==
    /\ stage = "again"
    /\ inp.current = << BlogContent("en", "x", 1, 1), BlogContent("ar", "x", 1, 1) >>
    /\ inp.incoming = << BlogContent("en", "x", 0, 0), BlogContent("en", "y", 0, 0) >>
    /\ Range(out.first) = {BlogContent("en", "y", 0, 0), BlogContent("ar", "x", 1, 1)}
    /\ Range(out.second) = Range(out.first)

----------------------------------------------------------------------------
(* Claims about name collisions in the generated shapes (SpecShape) *)

\* the declared fields of the drawn model that get a nested shape
NestedAt == {k \in OwnFields(inp) : IsSlice(inp[k].Type) /\ IsStruct(Tail(inp[k].Type))}
\* the field names a nested shape generated from struct type t may hold:
\* its declared fields other than foreign keys and embedded bases, and
\* LanguageID when it embeds orm.ContentModel
NestedNames(t) ==
    {Declared(t[2])[m].Name : m \in {x \in 1..Len(Declared(t[2])) :
                                        /\ ~Declared(t[2])[x].Anonymous
                                        /\ ~HasSuffixID(Declared(t[2])[x].Name)}}
    \cup (IF IsContentModel(t) THEN {"LanguageID"} ELSE {})
\* LanguageID was taken from an embedded base declared before field k
LanguageIDBefore(k) ==
    \E j \in 1..(k - 1) : inp[j].Anonymous /\ inp[j].Type = <<"struct", "ContentModel">>
\* the field name f was open to a nested shape generated before field k
OfferedBefore(f, k) ==
    \/ \E j \in NestedAt : j < k /\ f \in NestedNames(Tail(inp[j].Type))
    \/ f = "LanguageID" /\ LanguageIDBefore(k)

KeepFirst(shape) ==
    /\ \A k1, k2 \in NestedAt :
          k1 # k2 => FieldNames(shape.inner[inp[k1].Name])
                        \cap FieldNames(shape.inner[inp[k2].Name]) = {}
    /\ \A k \in NestedAt :
          /\ FieldNames(shape.inner[inp[k].Name]) =
                {f \in NestedNames(Tail(inp[k].Type)) : ~OfferedBefore(f, k)}
          /\ \A f \in FieldNames(shape.inner[inp[k].Name]) :
                CountName(shape.inner[inp[k].Name], f) = 1

\* C23: in the create and in the update shape a field name is in at most
\* one nested shape, the one generated first among those whose struct
\* declares it; LanguageID taken from an embedded base counts as added.
C23_NestedNamesKeepFirst ==
    stage = "out" => KeepFirst(out.create) /\ KeepFirst(out.update)

\* Contents before Notes: Content goes to the shape of Contents only
C23_Witness ==
    /\ stage = "out"
    /\ Len(inp) = 2
    /\ inp[1].Name = "Contents"
    /\ inp[2].Name = "Notes"
    /\ out.create.inner["Contents"] =
          << Fld("LanguageID", <<"string">>), Fld("Content", <<"string">>) >>
    /\ out.create.inner["Notes"] = << Fld("Text", <<"string">>) >>


\* the declared fields the generators leave out: embedded ones, and ones
\* that look like a base by name or by type name
LeftOut ==
    {k \in 1..Len(inp) :
        \/ inp[k].Anonymous
        \/ inp[k].Name \in {"Model", "ContentModel", "ModelName"}
        \/ (IsStruct(inp[k].Type) /\ inp[k].Type[2] \in {"Model", "ContentModel"})}

\* C30: a field that is embedded, or whose name contains "Model", or whose
\* type is named Model or ContentModel, is in none of the three shapes,
\* embedded or not, recognized base or not; nor are the fields of an
\* embedded struct that is no base.
C30_BaseTestByName ==
    stage = "out" =>
        /\ \A k \in LeftOut :
              /\ inp[k].Name \notin FieldNames(out.create.fields)
              /\ inp[k].Name \notin FieldNames(out.update.fields)
              /\ inp[k].Name \notin FieldNames(out.filter)
        /\ "Editor" \notin FieldNames(out.create.fields) \cup FieldNames(out.update.fields)
                               \cup FieldNames(out.filter)

\* ordinary fields ModelName (a string) and Parent (a Model) and the
\* embedded Audit: none of them reaches a shape
C30_Witness ==
    /\ stage = "out"
    /\ inp = << Decl("ModelName", <<"string">>, FALSE),
                Decl("Parent", <<"struct", "Model">>, FALSE),
                Decl("Audit", <<"struct", "Audit">>, TRUE) >>
    /\ out.create.fields = << >>
    /\ out.update.fields = << >>
    /\ out.filter = << >>

----------------------------------------------------------------------------
(* Claims about the generators' errors (Spec) *)

\* no drawn struct type makes the create or the update generator fail
GeneratorsNeverFail ==
    \A t \in ModelTypes :
        /\ GenerateCreateParametersOf(t).err = ""
        /\ GenerateUpdateParametersOf(t).err = ""

\* C29: the generators return a nil error for every struct model type, and
\* no response of the POST or PATCH handler carries the error code
\* GENERATE_CREATE_PARAMS_ERROR or GENERATE_UPDATE_PARAMS_ERROR.
C29_GenerateErrorsUnreachable ==
    /\ GeneratorsNeverFail
    /\ resp # NoResp =>
          resp.code \notin {"GENERATE_CREATE_PARAMS_ERROR", "GENERATE_UPDATE_PARAMS_ERROR"}

\* a PATCH whose body cannot be parsed: the generator ran before the parse
\* and did not stop the handler
C29_Witness ==
    /\ resp # NoResp
    /\ resp.method = "PATCH"
    /\ resp.steps = <<"repo.GetByID", "generate", "parse">>
    /\ resp.code = "PARSE_UPDATE_PARAMS_ERROR"

----------------------------------------------------------------------------
(* Specification SpecHas: the eager-load rule of GetByID and GetAll on     *)
(* bounded model types                                                     *)

\* the fields a drawn model type may declare: Contents in several types,
\* and a slice of content models under another name
HasPool ==
    { Decl("Model", <<"struct", "Model">>, TRUE),
      Decl("Owner", <<"string">>, FALSE),
      Decl("Contents", <<"slice", "struct", "BlogContent">>, FALSE),
      Decl("Contents", <<"slice", "ptr", "struct", "BlogContent">>, FALSE),
      Decl("Contents", <<"slice", "struct", "ContentModel">>, FALSE),
      Decl("Contents", <<"slice", "struct", "Note">>, FALSE),
      Decl("Contents", <<"slice", "string">>, FALSE),
      Decl("Contents", <<"struct", "BlogContent">>, FALSE),
      Decl("Items", <<"slice", "struct", "BlogContent">>, FALSE) }

HasTypes ==
    {t \in SeqsUpTo(HasPool, MaxFields) :
        Len(t) > 0 /\ \A i, j \in 1..Len(t) : i # j => t[i].Name # t[j].Name}

InitHas ==
    /\ inp \in [type : HasTypes, op : {"GetByID", "GetAll"}, fault : ReadFaults]
    /\ out = NoValue
    /\ stage = "in"
    /\ db = << >>
    /\ resp = NoResp
    /\ patch = NoPatch

\* GetByID or GetAll up to its query: whether the model type has contents
\* and whether the query is issued with Preload("Contents")
PreloadCall ==
    /\ stage = "in"
    /\ out' = [has |-> hasContents(inp.type),
               preload |-> PreloadContents(inp.type, inp.fault)]
    /\ stage' = "out"
    /\ UNCHANGED <<inp, db, resp, patch>>

NextHas == PreloadCall

SpecHas == InitHas /\ [][NextHas]_vars

\* the element types in play that have the method GetLanguageID
ContentElements ==
    { <<"struct", "BlogContent">>, <<"ptr", "struct", "BlogContent">>,
      <<"struct", "ContentModel">> }

\* C25: hasContents is true exactly for a type that declares a field named
\* Contents, a slice, whose elements have GetLanguageID; and a GetByID or
\* GetAll that gets to its query (Begin did not fail) issues it with the
\* Contents association preloaded exactly when hasContents is true.
C25_PreloadExactlyWithContents ==
    stage = "out" =>
        /\ out.has <=> \E i \in 1..Len(inp.type) :
                          /\ inp.type[i].Name = "Contents"
                          /\ inp.type[i].Type[1] = "slice"
                          /\ Tail(inp.type[i].Type) \in ContentElements
        /\ inp.fault.at # "begin" => (out.preload <=> out.has)
        /\ inp.fault.at = "begin" => ~out.preload

\* a slice of pointers to content models is preloaded; so the rule is seen
\* to say yes
C25_Witness ==
    /\ stage = "out"
    /\ inp.op = "GetAll"
    /\ inp.fault.at = "none"
    /\ inp.type = << Decl("Model", <<"struct", "Model">>, TRUE),
                     Decl("Contents", <<"slice", "ptr", "struct", "BlogContent">>, FALSE) >>
    /\ out.has
    /\ out.preload

----------------------------------------------------------------------------
(* Specification SpecTwoPatch: two PATCH requests for record 1 in flight   *)
(* at once.  patch[i] is request i: not started, between its read and its *)
(* save, or answered; out lists the requests in the order of their saves.  *)

\* the stored record both requests address
TwoPatchStores ==
    {[blogs |-> [i \in Ids |-> IF i = 1
                               THEN [ID |-> 1, CreatedAt |-> 1, UpdatedAt |-> 1,
                                     Owner |-> "a", IsPublished |-> FALSE]
                               ELSE NoRecord],
      contents |-> c, seq |-> 1] :
        c \in {{}, {BlogContent("en", "x", 1, 1)}}}

\* request bodies: a new owner, a new text for "en", a text for "ar"
TwoPatchBodies ==
    {Json([Contents |-> c, Owner |-> o, IsPublished |-> << >>]) :
        c \in {<< >>, << << [LanguageID |-> "en", Content |-> "y"] >> >>,
               << << [LanguageID |-> "ar", Content |-> "y"] >> >>},
        o \in {<< >>, <<"b">>}}

InitTwoPatch ==
    /\ db \in TwoPatchStores
    /\ patch = <<NoPatch, NoPatch>>
    /\ out = << >>
    /\ resp = NoResp
    /\ inp = NoValue
    /\ stage = "none"

\* request i from its start to just before repo.Update
TwoPatchFetch(i) ==
    /\ patch[i] = NoPatch
    /\ \E body \in TwoPatchBodies, f1 \in ReadFaults :
          \E p \in PatchPrepare(db, NumId(1), body, f1) :
              IF p.done
              THEN /\ db' = p.res.db
                   /\ patch' = [patch EXCEPT ![i] = [answered |-> TRUE, saved |-> FALSE,
                                                     savesSeen |-> Len(out),
                                                     resp |-> p.res.resp]]
              ELSE /\ db' = db
                   /\ patch' = [patch EXCEPT ![i] = [answered |-> FALSE, body |-> body,
                                                     savesSeen |-> Len(out), p |-> p]]
    /\ UNCHANGED <<inp, out, stage, resp>>

\* request i from repo.Update to its response
TwoPatchSave(i) ==
    /\ patch[i] # NoPatch
    /\ ~patch[i].answered
    /\ \E f2 \in WriteFaults :
          \E r \in PatchSave(db, NumId(1), patch[i].body, patch[i].p, f2) :
              /\ db' = r.db
              /\ patch' = [patch EXCEPT ![i] = [answered |-> TRUE, saved |-> TRUE,
                                                savesSeen |-> patch[i].savesSeen,
                                                resp |-> r.resp]]
    /\ out' = Append(out, i)
    /\ UNCHANGED <<inp, stage, resp>>

NextTwoPatch == \E i \in {1, 2} : TwoPatchFetch(i) \/ TwoPatchSave(i)

SpecTwoPatch == InitTwoPatch /\ [][NextTwoPatch]_vars

\* both requests read before either saved, and no call of either met a fault
Interleaved ==
    /\ Len(out) = 2
    /\ \A i \in {1, 2} :
          /\ patch[i].saved
          /\ patch[i].savesSeen = 0
          /\ \A c \in 1..Len(patch[i].resp.calls) : patch[i].resp.calls[c].fault.at = "none"
\* the full records the earlier and the later saver saved
EarlierRecord == patch[out[1]].resp.body
LaterRecord == patch[out[2]].resp.body

\* C24: after the interleaving both requests answered 200 and the stored
\* record is the later saver's full record.
C24_LaterRecordStored ==
    Interleaved =>
        /\ \A i \in {1, 2} : patch[i].resp.status = StatusOK
        /\ Record(db, 1) = [LaterRecord EXCEPT !.Contents = Range(@)]

====
